---- MODULE Spec2Model ----
(***************************************************************************)
(* Signature matching, context arbitration and score capping of the        *)
(* YouTube Safety Inspector backend (src/backend/analyzer.py,              *)
(* src/backend/ai_reviewer.py, src/backend/safety_db.py).                  *)
(*                                                                         *)
(* Text is a sequence of words.  f"{a} {b}" is concatenation, "p in t" is  *)
(* contiguous occurrence, a regular expression is a sequence of word       *)
(* alternatives that must occur in order (".{0,n}" gaps), searched with    *)
(* re.IGNORECASE.  Confidences are hundredths (0.6 is 60).                 *)
(***************************************************************************)
EXTENDS Integers, Sequences, FiniteSets, TLC

VARIABLES
    pc,          \* which entry point is running and where it stands
    signatures,  \* SafetyAnalyzer.signatures, the signature store
    ai_reviewer, \* the AIContextReviewer in use: its provider and client
    llm,         \* what the provider's API call did, once it was made
    an,          \* the locals of analyze() while it runs
    args,        \* the arguments of the running call
    result       \* what the call returned (or "none" while it runs)

vars == <<pc, signatures, ai_reviewer, llm, an, args, result>>

None == "none"

----------------------------------------------------------------------------
(* Bounds of the model                                                     *)

MaxStore == 3        \* signatures in a store drawn for the matcher
MaxSegments == 2     \* phrases concatenated into a text drawn for the matcher

----------------------------------------------------------------------------
(* Text                                                                    *)

\* str.lower() on one word: the upper-case spellings the model uses.
LowerW(w) ==
    CASE w = "MIX" -> "mix"
      [] w = "Mix" -> "mix"
      [] w = "BLEACH" -> "bleach"
      [] w = "NEVER" -> "never"
      [] w = "DEBUNKED" -> "debunked"
      [] w = "TARTARIA" -> "tartaria"
      [] w = "BBC" -> "bbc"
      [] w = "Pet Talk" -> "pet talk"
      [] w = "Sacred Taro UA" -> "sacred taro ua"
      [] w = " Sacred Taro UA " -> " sacred taro ua "
      [] OTHER -> w

\* str.strip() on a channel name.
Strip(w) ==
    CASE w = " Sacred Taro UA " -> "Sacred Taro UA"
      [] w = " sacred taro ua " -> "sacred taro ua"
      [] OTHER -> w

Lower(t) == [i \in DOMAIN t |-> LowerW(t[i])]

\* "p in t" for strings: p occurs contiguously in t ("" occurs in anything).
Occurs(p, t) ==
    \/ Len(p) = 0
    \/ \E i \in 1..(Len(t) - Len(p) + 1) : SubSeq(t, i, i + Len(p) - 1) = p

\* A pattern that re.compile rejects (an unbalanced parenthesis).
BadRegex == <<{"("}>>

InvalidRegex(p) == p = BadRegex

\* re.search(p, t, re.IGNORECASE) for a valid p: the alternatives of p occur
\* in t in order; p[k] is the set of words the k-th group accepts.
RECURSIVE SearchFrom(_, _, _, _)
SearchFrom(p, t, k, from) ==
    IF k > Len(p) THEN TRUE
    ELSE \E i \in from..Len(t) :
            /\ LowerW(t[i]) \in p[k]
            /\ SearchFrom(p, t, k + 1, i + 1)

ReSearch(p, t) == SearchFrom(p, t, 1, 1)

\* A literal phrase used as a regular expression (re.escape or plain words).
Lit(phrase) == [i \in DOMAIN phrase |-> {phrase[i]}]

\* re.search of a literal phrase: contiguous, case-insensitive.
ReSearchLit(phrase, t) == Occurs(Lower(phrase), Lower(t))

----------------------------------------------------------------------------
(* Signatures.  A signature is a JSON object; "keys" is the set of keys it *)
(* has, which is what the matchers sniff to tell the three shapes apart.   *)

NoCoOccurrence == [g \in {} |-> <<>>]

Signature(keys, id, category, severity) ==
    [keys |-> keys, id |-> id, category |-> category, severity |-> severity,
     triggers |-> <<>>, is_regex |-> FALSE, exclusions |-> <<>>,
     danger_signatures |-> <<>>,
     title_patterns |-> <<>>, description_patterns |-> <<>>,
     co_occurrence_signals |-> NoCoOccurrence,
     known_bad_channels |-> <<>>, known_bad_hashtags |-> <<>>,
     non_latin_enabled |-> FALSE, debunk_searches |-> <<>>]

\* The old shape: 'triggers' (phrases, or regular expressions with is_regex)
\* and 'exclusions'.
TriggerSignature(id, category, severity, triggers, is_regex, exclusions) ==
    [Signature({"id", "triggers"}, id, category, severity) EXCEPT
        !.triggers = triggers, !.is_regex = is_regex, !.exclusions = exclusions]

\* The new shape: a 'danger_signatures' array of {id, pattern, severity}.
DangerSignatures(category, entries) ==
    [Signature({"danger_signatures"}, "none", category, "medium") EXCEPT
        !.danger_signatures = entries]

\* chemical-001 and medical-001 of the default store, a regex-triggered
\* signature, one whose regular expression does not compile and a
\* danger_signatures file.
Chemical001 ==
    TriggerSignature("chemical-001", "chemical", "high",
        << <<"mix", "bleach", "and", "ammonia">>, <<"bleach", "with", "vinegar">>,
           <<"combine", "cleaning", "products">> >>,
        FALSE,
        << <<"never", "mix">>, <<"don't", "mix">>, <<"dangerous", "to", "mix">> >>)

Medical001 ==
    TriggerSignature("medical-001", "medical", "high",
        << <<"drink", "bleach", "to", "detox">>, <<"mms", "miracle", "mineral">>,
           <<"chlorine", "dioxide", "cure">> >>,
        FALSE, <<>>)

RegexSig ==
    TriggerSignature("regex-001", "diy", "medium",
        << <<{"mix", "combine"}, {"bleach", "vinegar"}>>, <<{"drink"}>> >>,
        TRUE,
        << <<"safely">> >>)

BrokenRegexSig ==
    TriggerSignature("regex-bad", "diy", "low", <<BadRegex>>, TRUE, <<>>)

\* A metadata-format signature that also carries triggers.
OccultWithTriggers ==
    [TriggerSignature("occult-001", "occult_manipulation", "high",
         << <<"drink", "bleach">>, <<"mix">> >>, FALSE, <<>>) EXCEPT
        !.keys = @ \cup {"title_patterns"},
        !.title_patterns = << <<{"zodiac"}>> >>]

OshaFile ==
    DangerSignatures("chemical",
        << [id |-> "osha-1", pattern |-> <<{"bleach"}, {"ammonia", "vinegar"}>>,
            severity |-> "high"],
           [id |-> "osha-2", pattern |-> <<{"drink"}, {"bleach"}>>,
            severity |-> "low"] >>)

\* A description pattern: its text ("raw", a phrase), whether that text holds
\* a regex metacharacter, and then the expression it compiles to.
LiteralPattern(phrase) == [meta |-> FALSE, re |-> <<>>, raw |-> phrase]
RegexPattern(re, raw) == [meta |-> TRUE, re |-> re, raw |-> raw]

\* A co_occurrence_signals value: a list of terms, or some other JSON value.
Terms(list) == [is_list |-> TRUE, terms |-> list]
NotAList == [is_list |-> FALSE, terms |-> <<>>]

\* Metadata-format signatures (the JSON files of safety-db/signatures): one
\* with every kind of signal, one with description patterns and term groups
\* only, one with a title pattern only.
OccultSig ==
    [Signature({"title_patterns", "description_patterns",
                "co_occurrence_signals", "channel_signals"},
               "none", "occult_manipulation", "high") EXCEPT
        !.title_patterns = <<BadRegex, <<{"zodiac", "virgo"}, {"revenge"}>> >>,
        !.description_patterns =
            <<RegexPattern(BadRegex, <<"(">>),
              LiteralPattern(<<"tarot", "reading">>)>>,
        !.co_occurrence_signals =
            [genre_terms |-> Terms(<< <<"zodiac">>, <<"tarot">> >>),
             harm_terms |-> Terms(<< <<"revenge">>, <<"enemy">> >>),
             evasion_tactics |-> Terms(<< <<"daily">>, <<"horoscope">> >>),
             note |-> NotAList],
        !.known_bad_channels = <<"Sacred Taro UA">>,
        !.known_bad_hashtags = << <<"#signs">> >>,
        !.non_latin_enabled = TRUE,
        !.debunk_searches = <<"astrology debunked">>]

PseudoHistorySig ==
    [Signature({"description_patterns", "co_occurrence_signals"},
               "none", "pseudohistorical_extremism", "medium") EXCEPT
        !.description_patterns =
            <<RegexPattern(<<{"hidden"}, {"history", "empire"}>>,
                           <<"hidden.*(history|empire)">>)>>,
        !.co_occurrence_signals =
            [topic_terms |-> Terms(<< <<"tartaria">>, <<"cabal">> >>),
             framing_terms |-> Terms(<< <<"hidden">>, <<"the", "truth">> >>)],
        !.debunk_searches = <<"tartaria debunked">>]

PopCultureSig ==
    [Signature({"title_patterns"}, "none", "pop_culture_subversion", "low")
     EXCEPT !.title_patterns = << <<{"fashwave"}>> >>]

----------------------------------------------------------------------------
(* SafetyAnalyzer._match_signatures                                        *)

\* A raised re.error, in place of a result.
Raised == [raised |-> TRUE, matches |-> <<>>]
Returned(matches) == [raised |-> FALSE, matches |-> matches]

\* One match.  "obj" is the identity of the dict stored under 'signature':
\* the store index for a triggers-form match (the signature itself), 0 for
\* the fresh dict a danger_signatures hit builds.  matched_trigger is the
\* position of the trigger (or danger_signatures entry) that hit.
Match(obj, id, category, severity, trigger, type) ==
    [obj |-> obj, id |-> id, category |-> category, severity |-> severity,
     matched_trigger |-> trigger, match_type |-> type, match_weight |-> 0,
     reasons |-> <<>>]

\* The loop over signature['danger_signatures']: every entry whose pattern
\* is non-empty and matches appends its own match.
RECURSIVE ScanDangerSignatures(_, _, _, _)
ScanDangerSignatures(signature, text, k, matches) ==
    IF k > Len(signature.danger_signatures) THEN Returned(matches)
    ELSE LET danger_sig == signature.danger_signatures[k] IN
         IF Len(danger_sig.pattern) = 0
         THEN ScanDangerSignatures(signature, text, k + 1, matches)
         ELSE IF InvalidRegex(danger_sig.pattern) THEN Raised
         ELSE IF ReSearch(danger_sig.pattern, text)
         THEN ScanDangerSignatures(signature, text, k + 1,
                Append(matches,
                    Match(0, danger_sig.id, signature.category,
                          danger_sig.severity, k, "regex")))
         ELSE ScanDangerSignatures(signature, text, k + 1, matches)

\* A loop over the triggers that goes on after a hit.
RECURSIVE ScanTriggers_NoBreak(_, _, _, _, _)
ScanTriggers_NoBreak(signature, obj, text, k, matches) ==
    IF k > Len(signature.triggers) THEN Returned(matches)
    ELSE LET trigger == signature.triggers[k] IN
         IF signature.is_regex /\ InvalidRegex(trigger) THEN Raised
         ELSE IF (IF signature.is_regex THEN ReSearch(trigger, text)
                  ELSE Occurs(Lower(trigger), text))
         THEN ScanTriggers_NoBreak(signature, obj, text, k + 1,
                Append(matches,
                    Match(obj, signature.id, signature.category,
                          signature.severity, k,
                          IF signature.is_regex THEN "regex" ELSE "phrase")))
         ELSE ScanTriggers_NoBreak(signature, obj, text, k + 1, matches)

\* The loop over signature['triggers']: the first trigger that hits appends
\* one match and breaks.
RECURSIVE ScanTriggers(_, _, _, _, _)
ScanTriggers(signature, obj, text, k, matches) ==
    IF k > Len(signature.triggers) THEN Returned(matches)
    ELSE LET trigger == signature.triggers[k] IN
         IF signature.is_regex
         THEN IF InvalidRegex(trigger) THEN Raised
              ELSE IF ReSearch(trigger, text)
              THEN Returned(Append(matches,
                     Match(obj, signature.id, signature.category,
                           signature.severity, k, "regex")))
              ELSE ScanTriggers(signature, obj, text, k + 1, matches)
         ELSE IF Occurs(Lower(trigger), text)
              THEN Returned(Append(matches,
                     Match(obj, signature.id, signature.category,
                           signature.severity, k, "phrase")))
              ELSE ScanTriggers(signature, obj, text, k + 1, matches)

\* A matcher that takes any last match for this signature's own.
MatchedThisSig_AnyLast(matches, obj) == Len(matches) > 0

\* matches[-1]['signature'] is signature
MatchedThisSig(matches, obj) ==
    /\ Len(matches) > 0
    /\ matches[Len(matches)].obj = obj

\* The exclusion check: one exclusion phrase in the text pops the last match.
ApplyExclusions(signature, obj, text, matches) ==
    IF /\ MatchedThisSig(matches, obj)
       /\ \E e \in DOMAIN signature.exclusions :
              Occurs(Lower(signature.exclusions[e]), text)
    THEN SubSeq(matches, 1, Len(matches) - 1)
    ELSE matches

IsMetadataFormat(signature) ==
    \/ "title_patterns" \in signature.keys
    \/ "description_patterns" \in signature.keys

RECURSIVE MatchSignaturesFrom(_, _, _, _)
MatchSignaturesFrom(sigs, text, i, matches) ==
    IF i > Len(sigs) THEN Returned(matches)
    ELSE LET signature == sigs[i] IN
         IF IsMetadataFormat(signature)
         THEN MatchSignaturesFrom(sigs, text, i + 1, matches)
         ELSE IF "danger_signatures" \in signature.keys
         THEN LET r == ScanDangerSignatures(signature, text, 1, matches) IN
              IF r.raised THEN Raised
              ELSE MatchSignaturesFrom(sigs, text, i + 1, r.matches)
         ELSE LET r == ScanTriggers(signature, i, text, 1, matches) IN
              IF r.raised THEN Raised
              ELSE MatchSignaturesFrom(sigs, text, i + 1,
                      ApplyExclusions(signature, i, text, r.matches))

\* _match_signatures(text) over the store sigs (text[:50000] keeps every
\* text of the model whole).
MatchSignatures(sigs, text) == MatchSignaturesFrom(sigs, text, 1, <<>>)

----------------------------------------------------------------------------
(* SafetyAnalyzer._match_metadata_signatures                               *)

\* Words that stand for non-Latin spellings (Cyrillic "таро", "тартария",
\* a Cyrillic word that is no hint) and for the zodiac sign U+264D.
NonLatinWords == {"cyr_taro", "cyr_tartaria", "cyr_slovo"}
ZodiacEmojis == {"zodiac_sign_virgo"}

\* sum(1 for c in w if c.isalpha()) and the non-ASCII part of it.
Letters(w) ==
    IF w \in ZodiacEmojis THEN 0
    ELSE IF w = "cyr_taro" THEN 4
    ELSE IF w = "cyr_tartaria" THEN 8
    ELSE IF w = "cyr_slovo" THEN 5
    ELSE IF w = "#zodiac" THEN 6
    ELSE Len(w)

NonAsciiLetters(w) == IF w \in NonLatinWords THEN Letters(w) ELSE 0

\* sum() of a list of numbers.
RECURSIVE Sum(_)
Sum(ns) == IF Len(ns) = 0 THEN 0 ELSE Head(ns) + Sum(Tail(ns))

SumOver(t, F(_)) == Sum([i \in DOMAIN t |-> F(t[i])])

\* "hint in combined", character by character: the hint is a word of the
\* text or a piece of one.
PieceOf(hint, w) ==
    \/ hint = w
    \/ <<hint, w>> \in {<<"astro", "astrology">>, <<"cyr_tar", "cyr_taro">>,
                        <<"cyr_tartar", "cyr_tartaria">>,
                        <<"cyr_tar", "cyr_tartaria">>}

HintIn(hint, t) == \E i \in DOMAIN t : PieceOf(hint, t[i])

\* static_hints, as far as the model's words go.
StaticHints ==
    <<"tarot", "taro", "zodiac", "horoscope", "astro", "cyr_tar", "cyr_taro",
      "tartaria", "cyr_tartar", "cabal">>

\* 1. title_patterns: a pattern that does not compile is logged and skipped.
TitlePatternHits(signature, title) ==
    \E k \in DOMAIN signature.title_patterns :
        /\ ~InvalidRegex(signature.title_patterns[k])
        /\ ReSearch(signature.title_patterns[k], title)

\* 2. description_patterns: the reason of the first pattern that hits, or
\* None.  re.error falls back to a substring test of the pattern text.
RECURSIVE DescriptionPatternReason(_, _, _)
DescriptionPatternReason(signature, description, k) ==
    IF k > Len(signature.description_patterns) THEN None
    ELSE LET pattern == signature.description_patterns[k] IN
         IF ~pattern.meta
         THEN IF ReSearchLit(pattern.raw, description)
              THEN "description_matches"
              ELSE DescriptionPatternReason(signature, description, k + 1)
         ELSE IF InvalidRegex(pattern.re)
         THEN IF Occurs(Lower(pattern.raw), description)
              THEN "description_contains"
              ELSE DescriptionPatternReason(signature, description, k + 1)
         ELSE IF ReSearch(pattern.re, description)
              THEN "description_matches"
              ELSE DescriptionPatternReason(signature, description, k + 1)

\* 3. term_groups: the list-valued groups other than 'evasion_tactics'.
TermGroups(signature) ==
    {g \in DOMAIN signature.co_occurrence_signals :
        /\ signature.co_occurrence_signals[g].is_list
        /\ g # "evasion_tactics"}

GroupsWithHits(signature, all_text) ==
    {g \in TermGroups(signature) :
        \E k \in DOMAIN signature.co_occurrence_signals[g].terms :
            Occurs(Lower(signature.co_occurrence_signals[g].terms[k]), all_text)}

\* len(groups_with_hits) >= 2, for the mutant that counts any group.
CoOccurrenceFires_OneGroup(signature, all_text) ==
    Cardinality(GroupsWithHits(signature, all_text)) >= 1

\* len(groups_with_hits) >= 2
CoOccurrenceFires(signature, all_text) ==
    Cardinality(GroupsWithHits(signature, all_text)) >= 2

\* 4. known_bad_channels: exact, lower-cased and stripped.
KnownBadChannel(signature, channel) ==
    /\ channel # ""
    /\ \E k \in DOMAIN signature.known_bad_channels :
          Strip(LowerW(signature.known_bad_channels[k])) = Strip(LowerW(channel))

\* 5. known_bad_hashtags: a substring of the combined text.
KnownBadHashtag(signature, all_text) ==
    \E k \in DOMAIN signature.known_bad_hashtags :
        Occurs(Lower(signature.known_bad_hashtags[k]), all_text)

\* 6. the non-Latin script fallback on combined = title + description.
\* len(t) of a term, its spaces counted.
TermChars(term) == SumOver(term, Len) + Len(term) - 1

\* dynamic_hints: the co-occurrence terms (of every list-valued group) that
\* are at least 5 characters long.
DynamicHints(signature) ==
    UNION {
        {Lower(signature.co_occurrence_signals[g].terms[k]) :
            k \in {j \in DOMAIN signature.co_occurrence_signals[g].terms :
                     TermChars(signature.co_occurrence_signals[g].terms[j]) >= 5}} :
        g \in {h \in DOMAIN signature.co_occurrence_signals :
                  signature.co_occurrence_signals[h].is_list}}

\* "hint in combined" for a term of one or more words.
TermIn(term, t) ==
    IF Len(term) = 1 THEN HintIn(term[1], t) ELSE Occurs(term, t)

NonLatinSignal(signature, combined) ==
    LET non_latin_chars == SumOver(combined, NonAsciiLetters)
        total_alpha == SumOver(combined, Letters)
    IN /\ total_alpha > 0
       /\ 2 * non_latin_chars > total_alpha
       /\ \/ \E i \in DOMAIN combined : combined[i] \in ZodiacEmojis
          \/ \E h \in DOMAIN StaticHints : HintIn(StaticHints[h], combined)
          \/ \E hint \in DynamicHints(signature) : TermIn(hint, combined)

\* matched_reasons before the fallback, in the order the code appends them.
SignalReasons(signature, title, description, channel, all_text) ==
    (IF TitlePatternHits(signature, title) THEN <<"title">> ELSE <<>>)
    \o (IF DescriptionPatternReason(signature, description, 1) # None
        THEN <<DescriptionPatternReason(signature, description, 1)>> ELSE <<>>)
    \o (IF CoOccurrenceFires(signature, all_text)
        THEN <<"co_occurrence">> ELSE <<>>)
    \o (IF KnownBadChannel(signature, channel) THEN <<"channel">> ELSE <<>>)
    \o (IF KnownBadHashtag(signature, all_text) THEN <<"hashtag">> ELSE <<>>)

\* What each reason adds to match_weight.
ReasonWeight(reason) ==
    CASE reason = "title" -> 3
      [] reason = "description_matches" -> 2
      [] reason = "description_contains" -> 2
      [] reason = "co_occurrence" -> 4
      [] reason = "channel" -> 5
      [] reason = "hashtag" -> 3
      [] reason = "non_latin" -> 3

\* A matcher that tries the script fallback whatever the weight so far.
MatchedReasons_AlwaysFallback(signature, title, description, channel, all_text) ==
    LET reasons == SignalReasons(signature, title, description, channel, all_text)
    IN IF /\ signature.non_latin_enabled
          /\ NonLatinSignal(signature, title \o description)
       THEN Append(reasons, "non_latin")
       ELSE reasons

\* matched_reasons of one signature, the fallback included.
MatchedReasons(signature, title, description, channel, all_text) ==
    LET reasons == SignalReasons(signature, title, description, channel, all_text)
    IN IF /\ signature.non_latin_enabled
          /\ SumOver(reasons, ReasonWeight) < 2
          /\ NonLatinSignal(signature, title \o description)
       THEN Append(reasons, "non_latin")
       ELSE reasons

\* A matcher that wants more than one description match worth of weight.
EnoughSignal_Above2(match_weight) == match_weight > 2

\* if match_weight >= 2
EnoughSignal(match_weight) == match_weight >= 2

\* The match of one metadata signature, as a list of none or one.
MetadataMatchOf(signature, title, description, channel, all_text) ==
    LET reasons == MatchedReasons(signature, title, description, channel, all_text)
        match_weight == SumOver(reasons, ReasonWeight)
    IN IF EnoughSignal(match_weight)
       THEN << [Match(0, "metadata_" \o signature.category, signature.category,
                      signature.severity, 0, "metadata") EXCEPT
                  !.match_weight = match_weight, !.reasons = reasons] >>
       ELSE <<>>

RECURSIVE MatchMetadataFrom(_, _, _, _, _, _)
MatchMetadataFrom(sigs, i, title, description, channel, all_text) ==
    IF i > Len(sigs) THEN <<>>
    ELSE (IF IsMetadataFormat(sigs[i])
          THEN MetadataMatchOf(sigs[i], title, description, channel, all_text)
          ELSE <<>>)
         \o MatchMetadataFrom(sigs, i + 1, title, description, channel, all_text)

\* _match_metadata_signatures(title, description, channel, transcript): the
\* texts are lower-cased, the channel is not.
MatchMetadataSignatures(sigs, title, description, channel, transcript) ==
    MatchMetadataFrom(sigs, 1, Lower(title), Lower(description), channel,
                      Lower(Lower(title) \o Lower(description) \o Lower(transcript)))

----------------------------------------------------------------------------
(* AIContextReviewer.heuristic_is_debunking, in hundredths                 *)

\* DEBUNKING_TITLE_PATTERNS, as far as the model's words go.
DEBUNKING_TITLE_PATTERNS ==
    << <<{"debunk", "debunked", "debunking", "debunks"}>>,
       <<{"myth", "myths", "mythbusting"}>>,
       <<{"hoax", "hoaxes"}>>,
       <<{"why"}, {"is"}, {"wrong", "fake", "nonsense"}>> >>

\* "keyword in title_lower", character by character: the keyword's words
\* occur in the title, the last one possibly as the start of a longer word.
KeywordIn(keyword, t) ==
    \/ Occurs(keyword, t)
    \/ /\ Len(keyword) = 1
       /\ \E i \in DOMAIN t :
             <<keyword[1], t[i]>> \in
                {<<"debunk", "debunked">>, <<"debunk", "debunking">>,
                 <<"myth", "myths">>, <<"hoax", "hoaxes">>,
                 <<"fake", "faked">>}

\* DEBUNKING_TITLE_KEYWORDS, as far as the model's words go.
DEBUNKING_TITLE_KEYWORDS ==
    << <<"debunk">>, <<"debunked">>, <<"myth">>, <<"hoax">>, <<"fake">>,
       <<"the", "truth", "about">>, <<"explained">> >>

\* DEBUNKING_DESCRIPTION_KEYWORDS, as far as the model's words go.
DEBUNKING_DESCRIPTION_KEYWORDS ==
    << <<"has", "been", "debunked">>, <<"no", "scientific", "evidence">>,
       <<"conspiracy", "theory">>, <<"misinformation">> >>

\* EDUCATIONAL_SIGNALS, as far as the model's words go.
EDUCATIONAL_SIGNALS == << <<"professor">>, <<"phd">>, <<"university">> >>

\* transcript_debunk_phrases, as far as the model's words go.
TranscriptDebunkPhrases ==
    << <<"this", "is", "false">>, <<"no", "evidence">>,
       <<"conspiracy", "theory">>, <<"misinformation">> >>

Min(a, b) == IF a <= b THEN a ELSE b
Max(a, b) == IF a >= b THEN a ELSE b

CountHits(keywords, Hit(_)) ==
    Cardinality({k \in DOMAIN keywords : Hit(keywords[k])})

\* The accumulated score.
DebunkingScore(title, description, transcript) ==
    LET title_lower == Lower(title)
        desc_lower == Lower(description)
        transcript_lower == Lower(transcript)
        InTitle(kw) == KeywordIn(kw, title_lower)
        InDesc(kw) == KeywordIn(kw, desc_lower)
        InDescOrTranscript(kw) ==
            KeywordIn(kw, desc_lower) \/ KeywordIn(kw, transcript_lower)
        InTranscript(kw) == KeywordIn(kw, transcript_lower)
        desc_debunk_count == CountHits(DEBUNKING_DESCRIPTION_KEYWORDS, InDesc)
        edu_count == CountHits(EDUCATIONAL_SIGNALS, InDescOrTranscript)
    IN (IF \E k \in DOMAIN DEBUNKING_TITLE_PATTERNS :
              ReSearch(DEBUNKING_TITLE_PATTERNS[k], title_lower)
        THEN 40 ELSE 0)
     + (IF CountHits(DEBUNKING_TITLE_KEYWORDS, InTitle) > 0 THEN 30 ELSE 0)
     + (IF desc_debunk_count > 0 THEN Min(30, desc_debunk_count * 15) ELSE 0)
     + (IF edu_count > 0 THEN Min(20, edu_count * 10) ELSE 0)
     + (IF /\ Len(transcript_lower) > 0
           /\ CountHits(TranscriptDebunkPhrases, InTranscript) > 0
        THEN 10 ELSE 0)

\* A heuristic whose confidence has no ceiling.
HeuristicIsDebunking_NoCeiling(title, description, transcript) ==
    LET confidence == DebunkingScore(title, description, transcript)
    IN [is_debunking |-> confidence >= 30,
        confidence |-> confidence,
        method |-> "heuristic"]

\* heuristic_is_debunking(title, description, transcript)
HeuristicIsDebunking(title, description, transcript) ==
    LET confidence == Min(95, DebunkingScore(title, description, transcript))
    IN [is_debunking |-> confidence >= 30,
        confidence |-> confidence,
        method |-> "heuristic"]

----------------------------------------------------------------------------
(* AIContextReviewer: the LLM call and review_flagged_content              *)

\* float('nan'), which json.loads reads from NaN; every comparison with it
\* is false.
NaN == 0 - 1

ConfGe(c, t) == c # NaN /\ t # NaN /\ c >= t
ConfLt(c, t) == c # NaN /\ t # NaN /\ c < t
ConfGt(c, t) == c # NaN /\ t # NaN /\ c > t

\* A max that keeps its first argument.
PyMax_First(a, b) == a

\* max(a, b) of Python: a, unless b > a.
PyMax(a, b) == IF ConfGt(b, a) THEN b ELSE a

VALID_VERDICTS == {"promoting", "debunking", "educational", "neutral", "satire"}

\* The 'confidence' of a parsed response: a number (hundredths, any sign or
\* size), NaN, true, some other JSON value, or no such key.
Number(v) == [kind |-> "number", value |-> v]
NotANumber == [kind |-> "nan", value |-> 0]
JsonTrue == [kind |-> "bool", value |-> 1]
JsonString == [kind |-> "string", value |-> 0]
Missing == [kind |-> "missing", value |-> 0]

\* No call made (no provider enabled, or not yet).
NoCall == [outcome |-> "none", response |-> [verdict |-> "neutral", confidence |-> Missing]]

\* _validate_result(result)
ValidateResult(raw, method) ==
    LET verdict == IF raw.verdict \in VALID_VERDICTS THEN raw.verdict
                   ELSE "neutral"
        confidence ==
            CASE raw.confidence.kind = "missing" -> 50
              [] raw.confidence.kind = "string" -> 50
              [] raw.confidence.kind = "nan" -> NaN
              [] raw.confidence.kind = "bool" -> 100 * raw.confidence.value
              [] raw.confidence.kind = "number" ->
                    IF raw.confidence.value < 0 \/ raw.confidence.value > 100
                    THEN 50 ELSE raw.confidence.value
    IN [verdict |-> verdict, confidence |-> confidence,
        is_dangerous |-> (verdict = "promoting"), method |-> method]

\* The handler of "except Exception" in ai_review_context.
HeuristicFallback(heuristic) ==
    [verdict |-> IF heuristic.is_debunking THEN "debunking" ELSE "promoting",
     confidence |-> heuristic.confidence,
     is_dangerous |-> ~heuristic.is_debunking,
     method |-> "heuristic_fallback"]

\* ai_review_context(...): reply is what the provider's call did, a parsed
\* response ("ok") or an exception ("error").
AiReviewContext(reviewer, heuristic, reply) ==
    IF reviewer.provider \in {"openai", "anthropic"} /\ reviewer.client
    THEN IF reply.outcome = "ok"
         THEN ValidateResult(reply.response, reviewer.provider)
         ELSE HeuristicFallback(heuristic)
    ELSE [verdict |-> IF heuristic.is_debunking THEN "debunking" ELSE "promoting",
          confidence |-> heuristic.confidence,
          is_dangerous |-> ~heuristic.is_debunking,
          method |-> "heuristic"]

\* SafetyAnalyzer.ai_reviewer when it is None.
NoReviewer == [provider |-> "none", client |-> FALSE]

\* is_ai_enabled
IsAiEnabled(reviewer) ==
    reviewer.provider \in {"openai", "anthropic"} /\ reviewer.client

\* The result dict; "keys" tells whether 'heuristic_agreed' is set.
ReviewResult(r, should_suppress, agreed_set, agreed) ==
    [verdict |-> r.verdict, confidence |-> r.confidence,
     is_dangerous |-> r.is_dangerous, method |-> r.method,
     should_suppress |-> should_suppress,
     has_heuristic_agreed |-> agreed_set, heuristic_agreed |-> agreed]

\* A heuristic-only tail that wants confidence 0.5 before it suppresses.
HeuristicOnly_Above50(heuristic) ==
    LET should_suppress == heuristic.is_debunking /\ heuristic.confidence >= 50
    IN ReviewResult(
         [verdict |-> IF heuristic.is_debunking THEN "debunking" ELSE "promoting",
          confidence |-> heuristic.confidence,
          is_dangerous |-> ~should_suppress,
          method |-> "heuristic"],
         should_suppress, FALSE, FALSE)

\* The "Heuristic only" tail of review_flagged_content.
HeuristicOnly(heuristic) ==
    LET should_suppress == heuristic.is_debunking /\ heuristic.confidence >= 30
    IN ReviewResult(
         [verdict |-> IF heuristic.is_debunking THEN "debunking" ELSE "promoting",
          confidence |-> heuristic.confidence,
          is_dangerous |-> ~should_suppress,
          method |-> "heuristic"],
         should_suppress, FALSE, FALSE)

\* A combination rule that lets the heuristic outvote a confident LLM.
ConfidentEnough_Never(ai_result) == FALSE

\* ai_result["confidence"] >= 0.6
ConfidentEnough(ai_result) == ConfGe(ai_result.confidence, 60)

\* A combination rule that joins the LLM on any debunking heuristic.
HeuristicBacksDebunking_Any(heuristic) == heuristic.is_debunking

\* heuristic["is_debunking"] and heuristic["confidence"] >= 0.5
HeuristicBacksDebunking(heuristic) ==
    heuristic.is_debunking /\ heuristic.confidence >= 50

\* review_flagged_content(...) given the heuristic's result and what the
\* LLM call did.
ReviewFlaggedContent(reviewer, heuristic, reply) ==
    IF IsAiEnabled(reviewer)
    THEN LET ai_result == AiReviewContext(reviewer, heuristic, reply) IN
         IF ConfidentEnough(ai_result)
         THEN ReviewResult(ai_result, ~ai_result.is_dangerous, TRUE,
                  heuristic.is_debunking = (~ai_result.is_dangerous))
         ELSE IF HeuristicBacksDebunking(heuristic)
         THEN ReviewResult(
                  [verdict |-> "debunking",
                   confidence |-> PyMax(ai_result.confidence, heuristic.confidence),
                   is_dangerous |-> FALSE,
                   method |-> ai_result.method \o "+heuristic"],
                  TRUE, TRUE, TRUE)
         ELSE HeuristicOnly(heuristic)
    ELSE HeuristicOnly(heuristic)

----------------------------------------------------------------------------
(* SafetyAnalyzer: the heuristic detectors.  The texts of the model are    *)
(* shorter than every MAX_..._LENGTH, so the truncations leave them alone. *)

\* f"{a} {b}" and ' '.join(tags)
RECURSIVE Join(_)
Join(texts) == IF Len(texts) = 0 THEN <<>> ELSE Head(texts) \o Join(Tail(texts))

\* self.categories of the default database: id -> name, in dict order.
CategoryIds ==
    <<"fitness", "diy", "cooking", "electrical", "medical", "chemical",
      "automotive", "childcare">>

\* get_category_name(category_id): cat.get('name', category_id.title())
GetCategoryName(category_id) ==
    CASE category_id = "fitness" -> "Fitness"
      [] category_id = "diy" -> "DIY"
      [] category_id = "cooking" -> "Cooking"
      [] category_id = "electrical" -> "Electrical"
      [] category_id = "medical" -> "Medical"
      [] category_id = "chemical" -> "Chemical"
      [] category_id = "automotive" -> "Automotive"
      [] category_id = "childcare" -> "Childcare"
      [] category_id = "driving_dmv" -> "Driving_Dmv"
      [] category_id = "occult_manipulation" -> "Occult_Manipulation"
      [] category_id = "pseudohistorical_extremism" -> "Pseudohistorical_Extremism"
      [] category_id = "pop_culture_subversion" -> "Pop_Culture_Subversion"
      [] OTHER -> category_id

\* A warning dict.
Warning(category, severity, message) ==
    [category |-> category, severity |-> severity, message |-> message]

\* self._impossible_patterns, as far as the model's words go.
ImpossiblePatterns ==
    << [pattern |-> <<{"cat", "dog", "parrot"}, {"drive", "driving", "cooking"}>>,
        reason |-> "Animal performing impossible human activity"],
       [pattern |-> <<{"cat", "dog", "parrot"}, {"lawyer", "pilot"}>>,
        reason |-> "Animal with human profession (likely AI)"] >>

\* self._ai_hashtag_patterns, as far as the model's words go.
AiHashtagPatterns == <<"#talkingcat", "#aivideo">>

\* self._suspicious_channel_patterns: the lower-cased channel names of the
\* model that one of them finds.
SuspiciousChannel(channel_lower) == channel_lower \in {"pet talk"}

\* suspicious_tags
SuspiciousTags == << <<"talking", "cat">>, <<"ai", "generated">> >>

\* _detect_impossible_content(title, description, channel, tags)
DetectImpossibleContent(title, description, channel, tags) ==
    LET full_text == Lower(title \o description)
        channel_lower == IF channel # "" THEN LowerW(channel) ELSE ""
        hits == {k \in DOMAIN ImpossiblePatterns :
                    ReSearch(ImpossiblePatterns[k].pattern, full_text)}
        hashtag_count ==
            Cardinality({k \in DOMAIN AiHashtagPatterns :
                            Occurs(<<AiHashtagPatterns[k]>>, full_text)})
    IN IF hits # {}
       THEN ImpossiblePatterns[CHOOSE k \in hits : \A j \in hits : k <= j].reason
       ELSE IF hashtag_count >= 2
       THEN "Multiple AI-associated hashtags detected"
       ELSE IF SuspiciousChannel(channel_lower) /\ hashtag_count >= 1
       THEN "Suspicious channel pattern + AI hashtags"
       ELSE IF \E i \in DOMAIN tags : \E k \in DOMAIN SuspiciousTags :
                  Occurs(SuspiciousTags[k], Lower(tags[i]))
       THEN "Suspicious video tag"
       ELSE None

\* self._dangerous_animal_child_patterns, as far as the model's words go.
DangerousAnimalChildPatterns ==
    << [pattern |-> <<{"snake", "python", "monkey"}, {"baby", "toddler", "child"}>>,
        warning |-> "SAFETY: Wild/exotic animal near child"],
       [pattern |-> <<{"baby", "toddler", "child"}, {"snake", "python", "monkey"}>>,
        warning |-> "SAFETY: Child near wild/exotic animal"] >>

\* _detect_dangerous_animal_child(title, description, tags)
DetectDangerousAnimalChild(title, description, tags) ==
    LET full_text == Lower(title \o description \o Join(tags))
        hits == {k \in DOMAIN DangerousAnimalChildPatterns :
                    ReSearch(DangerousAnimalChildPatterns[k].pattern, full_text)}
    IN IF hits # {}
       THEN DangerousAnimalChildPatterns[CHOOSE k \in hits : \A j \in hits : k <= j].warning
       ELSE None

\* self._title_red_flag_patterns, in the table's order, as far as the
\* model's words go.
TitleRedFlagPatterns ==
    << [pattern |-> <<{"cure", "cures", "heal"}, {"cancer", "diabetes"}>>,
        category |-> "medical", severity |-> "high",
        message |-> "Claims to cure/treat serious medical conditions"],
       [pattern |-> <<{"miracle", "secret", "natural"}, {"cure", "remedy"}>>,
        category |-> "medical", severity |-> "medium",
        message |-> "Promotes unverified 'miracle' or 'secret' cure"],
       [pattern |-> <<{"mix", "combine"}, {"bleach", "ammonia", "vinegar"},
                      {"and", "with"}, {"bleach", "ammonia", "vinegar"}>>,
        category |-> "chemical", severity |-> "high",
        message |-> "Mixing household chemicals can create toxic/lethal gases"],
       [pattern |-> <<{"bleach", "ammonia"}, {"ammonia", "bleach"}>>,
        category |-> "chemical", severity |-> "high",
        message |-> "Bleach and ammonia together create deadly chloramine gas"],
       [pattern |-> <<{"drink", "ingest"}, {"bleach", "ammonia"}>>,
        category |-> "chemical", severity |-> "high",
        message |-> "Ingesting household chemicals is potentially fatal"],
       [pattern |-> <<{"make", "build"}, {"bomb", "explosive"}>>,
        category |-> "diy", severity |-> "high",
        message |-> "DIY weapons/explosives - extremely dangerous and potentially illegal"],
       [pattern |-> <<{"street", "highway"}, {"race", "racing"}>>,
        category |-> "driving_dmv", severity |-> "medium",
        message |-> "Dangerous driving on public roads"] >>

\* A detector that keeps the warning of every pattern that matches.
RECURSIVE RedFlagsFrom_EveryPattern(_, _, _)
RedFlagsFrom_EveryPattern(full_text, k, seen_categories) ==
    IF k > Len(TitleRedFlagPatterns) THEN <<>>
    ELSE LET row == TitleRedFlagPatterns[k]
         IN IF ReSearch(row.pattern, full_text)
            THEN <<Warning(GetCategoryName(row.category), row.severity, row.message)>>
                 \o RedFlagsFrom_EveryPattern(full_text, k + 1, seen_categories)
            ELSE RedFlagsFrom_EveryPattern(full_text, k + 1, seen_categories)

RECURSIVE RedFlagsFrom(_, _, _)
RedFlagsFrom(full_text, k, seen_categories) ==
    IF k > Len(TitleRedFlagPatterns) THEN <<>>
    ELSE LET row == TitleRedFlagPatterns[k]
             cat_key == <<row.category, row.severity>>
         IN IF ReSearch(row.pattern, full_text) /\ cat_key \notin seen_categories
            THEN <<Warning(GetCategoryName(row.category), row.severity, row.message)>>
                 \o RedFlagsFrom(full_text, k + 1, seen_categories \cup {cat_key})
            ELSE RedFlagsFrom(full_text, k + 1, seen_categories)

\* _detect_title_red_flags(title, description, tags)
DetectTitleRedFlags(title, description, tags) ==
    RedFlagsFrom(Lower(title \o description \o Join(tags)), 1, {})

----------------------------------------------------------------------------
(* SafetyAnalyzer: scores and warnings                                     *)

AI_CONTENT_MAX_SCORE == 20
DANGEROUS_ANIMAL_MAX_SCORE == 10
DEFAULT_SAFE_SCORE == 95
BASE_SCORE == 100
UNCERTAINTY_CAP == 72

\* CATEGORY_SEVERITY_WEIGHTS.get(severity, 5)
CategorySeverityWeight(severity) ==
    CASE severity = "high" -> 30 [] severity = "medium" -> 15 [] OTHER -> 5

\* OVERALL_SEVERITY_PENALTIES.get(severity, 5)
OverallSeverityPenalty(severity) ==
    CASE severity = "high" -> 25 [] severity = "medium" -> 12 [] OTHER -> 5

\* int(x) for the rational x = num / den, den > 0: towards zero.
IntOf(num, den) == IF num >= 0 THEN num \div den ELSE 0 - ((0 - num) \div den)

\* _analyze_categories(text, matches): per category id (the model keeps the
\* id where the code keys the result by name), flagged and score.
AnalyzeCategories(matches) ==
    [cat_id \in {CategoryIds[k] : k \in DOMAIN CategoryIds} |->
        LET cat_matches == {i \in DOMAIN matches : matches[i].category = cat_id}
            penalties == [i \in DOMAIN matches |->
                            IF i \in cat_matches
                            THEN CategorySeverityWeight(matches[i].severity)
                            ELSE 0]
        IN [flagged |-> cat_matches # {},
            score |-> IF cat_matches # {}
                      THEN Max(0, BASE_SCORE - Sum(penalties))
                      ELSE 100]]

\* sorted(matches, key=severity_order...): a stable sort.
SeverityOrder(severity) ==
    CASE severity = "high" -> 0 [] severity = "medium" -> 1 [] OTHER -> 2

RECURSIVE Pick(_, _, _)
Pick(matches, rank, i) ==
    IF i > Len(matches) THEN <<>>
    ELSE (IF SeverityOrder(matches[i].severity) = rank THEN <<matches[i]>> ELSE <<>>)
         \o Pick(matches, rank, i + 1)

\* Warnings in the order of the matches, unsorted.
GenerateWarnings_Unsorted(matches) ==
    [i \in DOMAIN matches |->
        Warning(GetCategoryName(matches[i].category), matches[i].severity,
                matches[i].id)]

\* _generate_warnings(matches)
GenerateWarnings(matches) ==
    LET sorted_matches == Pick(matches, 0, 1) \o Pick(matches, 1, 1) \o Pick(matches, 2, 1)
    IN [i \in DOMAIN sorted_matches |->
          Warning(GetCategoryName(sorted_matches[i].category),
                  sorted_matches[i].severity, sorted_matches[i].id)]

\* A score that forgets the lower clamp.
CalculateSafetyScore_Unclamped(matches, categories) ==
    LET base_score == BASE_SCORE -
            Sum([i \in DOMAIN matches |-> OverallSeverityPenalty(matches[i].severity)])
    IN IF Len(matches) = 0 THEN DEFAULT_SAFE_SCORE ELSE base_score

\* _calculate_safety_score(matches, categories): the floating-point sum
\* base_score * 0.6 + category_avg * 0.4 truncates, for the scores that can
\* occur, as the exact (6 * base_score * n + 4 * total) / (10 * n) does.
CalculateSafetyScore(matches, categories) ==
    IF Len(matches) = 0 THEN DEFAULT_SAFE_SCORE
    ELSE LET base_score == BASE_SCORE -
                Sum([i \in DOMAIN matches |-> OverallSeverityPenalty(matches[i].severity)])
             n == Len(CategoryIds)
             total == Sum([k \in DOMAIN CategoryIds |-> categories[CategoryIds[k]].score])
             final_score == IF DOMAIN categories # {}
                            THEN IntOf(6 * base_score * n + 4 * total, 10 * n)
                            ELSE base_score
         IN Max(0, Min(BASE_SCORE, final_score))

\* The pairs (transcript_score, comment_score) at which the floating-point
\* sum falls just short of the whole number the exact sum is, so that int()
\* gives one less: for 0.6 / 0.4, and for 0.3 / 0.7.
TranscriptBlendShortfall ==
    {<<6, 1>>, <<12, 2>>, <<24, 4>>, <<31, 1>>, <<36, 1>>, <<41, 1>>,
     <<46, 1>>, <<48, 3>>, <<48, 8>>, <<51, 1>>, <<57, 2>>, <<57, 7>>,
     <<62, 2>>, <<62, 7>>, <<67, 2>>, <<67, 7>>, <<72, 2>>, <<72, 7>>,
     <<77, 2>>, <<77, 7>>, <<82, 2>>, <<82, 7>>, <<87, 2>>, <<87, 7>>,
     <<92, 2>>, <<92, 7>>, <<96, 1>>, <<96, 6>>, <<96, 11>>, <<96, 16>>,
     <<97, 2>>, <<97, 7>>}

NoTranscriptBlendShortfall ==
    {<<0, 90>>, <<1, 11>>, <<1, 51>>, <<1, 61>>, <<1, 71>>, <<1, 81>>,
     <<1, 91>>, <<2, 12>>, <<2, 22>>, <<2, 92>>, <<3, 3>>, <<3, 23>>,
     <<3, 33>>, <<3, 43>>, <<3, 53>>, <<3, 63>>, <<3, 73>>, <<3, 83>>,
     <<4, 14>>, <<4, 24>>, <<4, 34>>, <<4, 44>>, <<5, 85>>, <<6, 6>>,
     <<6, 46>>, <<6, 56>>, <<6, 66>>, <<6, 76>>, <<6, 86>>, <<6, 96>>,
     <<7, 17>>, <<7, 97>>, <<8, 28>>, <<8, 38>>, <<8, 48>>, <<8, 58>>,
     <<8, 68>>, <<8, 78>>, <<8, 88>>, <<9, 19>>, <<9, 29>>, <<9, 39>>,
     <<11, 51>>, <<11, 61>>, <<11, 71>>, <<11, 81>>, <<12, 12>>, <<12, 92>>,
     <<13, 23>>, <<13, 33>>, <<13, 53>>, <<13, 63>>, <<13, 73>>, <<13, 83>>,
     <<14, 24>>, <<14, 34>>, <<15, 85>>, <<16, 46>>, <<16, 56>>, <<16, 66>>,
     <<16, 76>>, <<16, 96>>, <<17, 97>>, <<18, 28>>, <<18, 38>>, <<18, 48>>,
     <<18, 58>>, <<18, 68>>, <<18, 78>>, <<19, 29>>, <<21, 51>>, <<21, 61>>,
     <<21, 71>>, <<21, 81>>, <<22, 12>>, <<22, 92>>, <<23, 23>>, <<23, 33>>,
     <<23, 53>>, <<23, 63>>, <<23, 73>>, <<24, 24>>, <<24, 34>>, <<26, 46>>,
     <<26, 56>>, <<26, 66>>, <<26, 76>>, <<26, 96>>, <<27, 97>>, <<28, 48>>,
     <<28, 58>>, <<28, 68>>, <<28, 78>>, <<29, 29>>, <<31, 1>>, <<31, 51>>,
     <<31, 61>>, <<31, 71>>, <<32, 92>>, <<33, 53>>, <<33, 63>>, <<33, 73>>,
     <<34, 24>>, <<36, 6>>, <<36, 46>>, <<36, 56>>, <<36, 66>>, <<36, 76>>,
     <<36, 96>>, <<37, 97>>, <<38, 48>>, <<38, 58>>, <<38, 68>>, <<39, 29>>,
     <<41, 1>>, <<41, 51>>, <<41, 61>>, <<41, 71>>, <<42, 92>>, <<43, 53>>,
     <<43, 63>>, <<43, 73>>, <<44, 24>>, <<46, 46>>, <<46, 56>>, <<46, 66>>,
     <<46, 96>>, <<47, 97>>, <<48, 48>>, <<48, 58>>, <<48, 68>>, <<51, 1>>,
     <<51, 51>>, <<51, 61>>, <<52, 92>>, <<53, 23>>, <<53, 53>>, <<53, 63>>,
     <<56, 96>>, <<57, 7>>, <<57, 17>>, <<57, 97>>, <<58, 48>>, <<58, 58>>,
     <<62, 2>>, <<62, 12>>, <<62, 92>>, <<63, 53>>, <<63, 63>>, <<66, 96>>,
     <<67, 7>>, <<67, 17>>, <<67, 97>>, <<68, 48>>, <<68, 58>>, <<72, 2>>,
     <<72, 12>>, <<72, 92>>, <<73, 53>>, <<76, 96>>, <<77, 7>>, <<77, 97>>,
     <<78, 48>>, <<78, 58>>, <<82, 2>>, <<82, 92>>, <<83, 53>>, <<86, 96>>,
     <<87, 7>>, <<87, 97>>, <<88, 48>>, <<92, 2>>, <<92, 92>>, <<96, 46>>,
     <<96, 96>>, <<97, 97>>, <<98, 48>>}

\* A blend that adds the two scores up.
WeightedScore_Unweighted(transcript_available, transcript_score, comment_score) ==
    transcript_score + comment_score

\* int(transcript_score * w1 + comment_score * w2), step 6 of analyze.
WeightedScore(transcript_available, transcript_score, comment_score) ==
    IF transcript_available
    THEN (6 * transcript_score + 4 * comment_score) \div 10
         - (IF <<transcript_score, comment_score>> \in TranscriptBlendShortfall
            THEN 1 ELSE 0)
    ELSE (3 * transcript_score + 7 * comment_score) \div 10
         - (IF <<transcript_score, comment_score>> \in NoTranscriptBlendShortfall
            THEN 1 ELSE 0)

----------------------------------------------------------------------------
(* SafetyAnalyzer.analyze, from one await to the next                      *)

TRUSTED_CHANNELS == {"bbc earth", "bbc", "national geographic", "ted"}

\* What _analyze_comments returns without comments, or when the fetch fails.
NoCommentAnalysis ==
    [total_comments |-> 0, warning_comments |-> 0, warnings |-> <<>>,
     warning_score |-> 100, top_concerns |-> <<>>, has_ai_content |-> FALSE]

NoReviews == [category \in {} |-> 0]

\* The locals of analyze() before step 0.
NoAnalysis ==
    [raised |-> FALSE, metadata_found |-> FALSE,
     channel_name |-> "", video_title |-> <<>>,
     video_description |-> <<>>, video_tags |-> <<>>,
     is_trusted_channel |-> FALSE,
     transcript_text |-> <<>>, transcript_available |-> FALSE,
     comment_analysis |-> NoCommentAnalysis,
     heuristic_ai |-> None, dangerous_animal_child |-> None,
     title_red_flags |-> <<>>, all_text |-> <<>>,
     signature_matches |-> <<>>, metadata_matches |-> <<>>,
     pending |-> <<>>, verified |-> <<>>, ai_review_results |-> NoReviews,
     is_debunking |-> FALSE, ai_transcript_concerns |-> <<>>]

\* A step 0 that knows the API's metadata only.
Step0_ApiOnly(scraped, metadata) ==
    [NoAnalysis EXCEPT
        !.metadata_found = metadata.found,
        !.channel_name = metadata.channel,
        !.video_title = metadata.title,
        !.video_description = metadata.description,
        !.video_tags = metadata.tags,
        !.is_trusted_channel = (metadata.channel # ""
                                /\ LowerW(metadata.channel) \in TRUSTED_CHANNELS)]

\* Step 0: the metadata of the API, where it has any, over the scraped one.
Step0(scraped, metadata) ==
    LET channel_name == IF metadata.found /\ metadata.channel # ""
                        THEN metadata.channel ELSE scraped.scraped_channel
    IN [NoAnalysis EXCEPT
          !.metadata_found = metadata.found,
          !.channel_name = channel_name,
          !.video_title = IF metadata.found /\ metadata.title # <<>>
                          THEN metadata.title ELSE scraped.scraped_title,
          !.video_description = IF metadata.found /\ metadata.description # <<>>
                                THEN metadata.description
                                ELSE scraped.scraped_description,
          !.video_tags = IF metadata.found THEN metadata.tags ELSE <<>>,
          !.is_trusted_channel = (channel_name # ""
                                  /\ LowerW(channel_name) \in TRUSTED_CHANNELS)]

RECURSIVE DropAiContent(_)
DropAiContent(warnings) ==
    IF Len(warnings) = 0 THEN <<>>
    ELSE (IF Head(warnings).category # "AI Content" THEN <<Head(warnings)>> ELSE <<>>)
         \o DropAiContent(Tail(warnings))

\* A step 2 that trusts no channel.
TrustedFilter_Keep(a) == a

\* Step 2, after the comments: a trusted channel loses its AI warnings.
TrustedFilter(a) ==
    IF a.is_trusted_channel
    THEN [a EXCEPT !.comment_analysis =
            [@ EXCEPT !.warnings = DropAiContent(@), !.has_ai_content = FALSE]]
    ELSE a

\* A cap that replaces the comment score instead of lowering it.
CapScore_Replace(warning_score, cap) == cap

\* min(comment_analysis.get("warning_score", BASE_SCORE), cap)
CapScore(warning_score, cap) == Min(warning_score, cap)

\* Step 2.5: heuristic AI detection.
Step2_5(a) ==
    LET heuristic_ai == DetectImpossibleContent(a.video_title, a.video_description,
                                                a.channel_name, a.video_tags)
    IN IF ~a.is_trusted_channel /\ Len(a.video_title) > 0 /\ heuristic_ai # None
       THEN [a EXCEPT
               !.heuristic_ai = heuristic_ai,
               !.comment_analysis =
                  [@ EXCEPT !.has_ai_content = TRUE,
                            !.warnings = <<Warning("AI Content", "high", heuristic_ai)>> \o @,
                            !.warning_score = CapScore(@, AI_CONTENT_MAX_SCORE)]]
       ELSE a

\* Step 2.6: dangerous animal near a child.
Step2_6(a) ==
    LET dangerous_animal_child ==
            DetectDangerousAnimalChild(a.video_title, a.video_description, a.video_tags)
    IN IF Len(a.video_title) > 0 /\ dangerous_animal_child # None
       THEN [a EXCEPT
               !.dangerous_animal_child = dangerous_animal_child,
               !.comment_analysis =
                  [@ EXCEPT !.warnings = <<Warning("Child Safety", "critical",
                                                   dangerous_animal_child)>> \o @,
                            !.warning_score = CapScore(@, DANGEROUS_ANIMAL_MAX_SCORE)]]
       ELSE a

RECURSIVE Reverse(_)
Reverse(q) == IF Len(q) = 0 THEN <<>> ELSE Reverse(Tail(q)) \o <<Head(q)>>

SeverityRank(severity) ==
    CASE severity = "critical" -> 3 [] severity = "high" -> 2
      [] severity = "medium" -> 1 [] OTHER -> 0

\* max(..., key=rank) over a list of ranks: the place of the first highest.
FirstMax(ranks) ==
    CHOOSE i \in DOMAIN ranks :
        /\ \A j \in DOMAIN ranks : ranks[j] <= ranks[i]
        /\ \A j \in 1..(i - 1) : ranks[j] < ranks[i]

\* Step 2.7: title red flags.
Step2_7(a) ==
    LET title_red_flags ==
            IF ~a.is_trusted_channel /\ Len(a.video_title) > 0
            THEN DetectTitleRedFlags(a.video_title, a.video_description, a.video_tags)
            ELSE <<>>
    IN IF Len(title_red_flags) > 0
       THEN LET max_severity ==
                    title_red_flags[FirstMax([i \in DOMAIN title_red_flags |->
                        SeverityRank(title_red_flags[i].severity)])].severity
            IN
            [a EXCEPT
               !.title_red_flags = title_red_flags,
               !.comment_analysis =
                  [@ EXCEPT !.warnings = Reverse(title_red_flags) \o @,
                            !.warning_score =
                                IF max_severity \in {"high", "critical"}
                                THEN CapScore(@, 30)
                                ELSE IF max_severity = "medium"
                                THEN CapScore(@, 55)
                                ELSE @]]
       ELSE a

\* The metadata_sig_matches whose id is not among the ids found so far.
RECURSIVE MergeById(_, _)
MergeById(signature_matches, metadata_sig_matches) ==
    IF Len(metadata_sig_matches) = 0 THEN signature_matches
    ELSE LET m == Head(metadata_sig_matches) IN
         MergeById(
            IF \E i \in DOMAIN signature_matches : signature_matches[i].id = m.id
            THEN signature_matches
            ELSE Append(signature_matches, [m EXCEPT !.match_type = "metadata_trigger"]),
            Tail(metadata_sig_matches))

\* An inline heuristic that suppresses nothing.
InlineSuppress_Never(heuristic) == FALSE

\* Step 3.6 without a reviewer:
\* heuristic["is_debunking"] and heuristic["confidence"] >= 0.3
InlineSuppress(heuristic) ==
    heuristic.is_debunking /\ heuristic.confidence >= 30

\* Steps 3 to 3.6 when no reviewer was given (3.6 is then the inline
\* heuristic), and to the first review otherwise.
Step3(sigs, reviewer, a) ==
    LET metadata_text == Lower(a.video_title \o a.video_description)
        all_text == a.transcript_text \o Join(a.comment_analysis.top_concerns)
        from_text == MatchSignatures(sigs, all_text)
        from_metadata == IF Len(metadata_text) > 0
                         THEN MatchSignatures(sigs, metadata_text)
                         ELSE Returned(<<>>)
        metadata_matches ==
            MatchMetadataSignatures(sigs, a.video_title, a.video_description,
                                    a.channel_name, a.transcript_text)
        heuristic == HeuristicIsDebunking(a.video_title, a.video_description,
                                          a.transcript_text)
        suppress == InlineSuppress(heuristic)
        signature_matches == MergeById(from_text.matches, from_metadata.matches)
    IN IF from_text.raised \/ from_metadata.raised
       THEN [a EXCEPT !.raised = TRUE]
       ELSE IF reviewer = NoReviewer
       THEN LET verified == IF suppress THEN <<>> ELSE metadata_matches IN
            [a EXCEPT !.all_text = all_text,
                      !.metadata_matches = verified,
                      !.is_debunking = (suppress /\ Len(metadata_matches) > 0),
                      !.signature_matches = signature_matches \o verified]
       ELSE [a EXCEPT !.all_text = all_text,
                      !.metadata_matches = metadata_matches,
                      !.pending = metadata_matches,
                      !.signature_matches = signature_matches]

\* Step 3.6 for one match: the review, and what it does to the locals.
Step3_6(reviewer, a, reply) ==
    LET match == Head(a.pending)
        review == ReviewFlaggedContent(
                      reviewer,
                      HeuristicIsDebunking(a.video_title, a.video_description,
                                           a.transcript_text),
                      reply)
        verified == IF review.should_suppress THEN a.verified
                    ELSE Append(a.verified, match)
        last == Len(a.pending) = 1
    IN [a EXCEPT
          !.pending = Tail(@),
          !.verified = verified,
          !.ai_review_results = (match.category :> review) @@ @,
          !.is_debunking = @ \/ review.should_suppress,
          !.metadata_matches = IF last THEN verified ELSE @,
          !.signature_matches = IF last THEN @ \o verified ELSE @]

\* Step 3.7: what a deep transcript analysis does to the comment analysis.
Step3_7(a, deep_analysis) ==
    IF Len(deep_analysis.concerns) > 0
    THEN [a EXCEPT
            !.ai_transcript_concerns = deep_analysis.concerns,
            !.comment_analysis =
               [@ EXCEPT
                  !.warnings = @ \o [i \in DOMAIN deep_analysis.concerns |->
                                        Warning("AI Analysis", deep_analysis.concerns[i].severity,
                                                deep_analysis.concerns[i].description)],
                  !.warning_score =
                      IF deep_analysis.overall_risk = "high" THEN CapScore(@, 25)
                      ELSE IF deep_analysis.overall_risk = "medium" THEN CapScore(@, 55)
                      ELSE @]]
    ELSE a

\* Step 5: the warnings list.
RECURSIVE DedupedFlags(_, _)
DedupedFlags(flags, warnings) ==
    IF Len(flags) = 0 THEN <<>>
    ELSE (IF \E i \in DOMAIN warnings :
                /\ warnings[i].category = Head(flags).category
                /\ warnings[i].severity = Head(flags).severity
          THEN <<>> ELSE <<Head(flags)>>)
         \o DedupedFlags(Tail(flags), warnings)

AnalysisWarnings(a) ==
    LET warnings == GenerateWarnings(a.signature_matches)
        comment_warnings == a.comment_analysis.warnings
    IN DedupedFlags(a.title_red_flags, warnings) \o warnings
       \o SubSeq(comment_warnings, 1, Min(5, Len(comment_warnings)))

\* Step 6: transcript_score
TranscriptScore(a) ==
    CalculateSafetyScore(a.signature_matches, AnalyzeCategories(a.signature_matches))

\* An analysis that never doubts.
UncertaintyCapped_Never(a, safety_score) == safety_score

\* Step 6.1: the uncertainty penalty.
UncertaintyCapped(a, safety_score) ==
    IF /\ ~a.transcript_available
       /\ ~(a.comment_analysis.total_comments > 0)
       /\ safety_score > UNCERTAINTY_CAP
       /\ ~a.is_trusted_channel
    THEN UNCERTAINTY_CAP
    ELSE safety_score

\* The rank of step 6.5, which knows no 'critical'.
MetadataSeverityRank(severity) ==
    CASE severity = "high" -> 2 [] severity = "medium" -> 1 [] OTHER -> 0

\* A ceiling that forgets the weight.
MetadataCap_Flat(metadata_matches) ==
    LET max_severity ==
            metadata_matches[FirstMax([i \in DOMAIN metadata_matches |->
                MetadataSeverityRank(metadata_matches[i].severity)])].severity
    IN IF max_severity = "high" THEN 45
       ELSE IF max_severity = "medium" THEN 65 ELSE 80

\* Step 6.5: metadata_cap, for a non-empty list of metadata matches.
MetadataCap(metadata_matches) ==
    LET max_metadata_weight ==
            CHOOSE w \in {metadata_matches[i].match_weight : i \in DOMAIN metadata_matches} :
                \A i \in DOMAIN metadata_matches : metadata_matches[i].match_weight <= w
        max_severity ==
            metadata_matches[FirstMax([i \in DOMAIN metadata_matches |->
                MetadataSeverityRank(metadata_matches[i].severity)])].severity
    IN IF max_severity = "high" THEN Max(10, 45 - (max_metadata_weight * 3))
       ELSE IF max_severity = "medium" THEN 65
       ELSE 80

\* Steps 6 and 6.1: the score the metadata ceiling is applied to.
RunningScore(a) ==
    UncertaintyCapped(a, WeightedScore(a.transcript_available, TranscriptScore(a),
                                       a.comment_analysis.warning_score))

\* Steps 6 to 6.5: safety_score
SafetyScore(a) ==
    IF Len(a.metadata_matches) > 0 /\ RunningScore(a) > MetadataCap(a.metadata_matches)
    THEN MetadataCap(a.metadata_matches)
    ELSE RunningScore(a)

\* Step 8.5: debunk_searches
RECURSIVE DebunkSearches(_, _, _)
DebunkSearches(sigs, i, category_ids) ==
    IF i > Len(sigs) THEN <<>>
    ELSE (IF sigs[i].category \in category_ids THEN sigs[i].debunk_searches ELSE <<>>)
         \o DebunkSearches(sigs, i + 1, category_ids)

\* _generate_summary(...): the sentences of the summary, each named by what
\* it reports.
GenerateSummary(matches, categories, has_transcript, comment_analysis, title_red_flags) ==
    LET Has(severity) == \E i \in DOMAIN matches : matches[i].severity = severity IN
    (IF Len(title_red_flags) > 0 THEN <<"red flags">> ELSE <<>>)
    \o (IF ~has_transcript THEN <<"no transcript">> ELSE <<>>)
    \o (IF comment_analysis.total_comments > 0
        THEN IF comment_analysis.warning_comments > 0
             THEN <<"community warnings">>
                  \o (IF Len(comment_analysis.top_concerns) > 0
                      THEN <<"top concerns">> ELSE <<>>)
             ELSE <<"no community warnings">>
        ELSE <<"no comments">>)
    \o (IF Len(matches) > 0
        THEN (IF Has("high") THEN <<"high">> ELSE <<>>)
             \o (IF Has("medium") THEN <<"medium">> ELSE <<>>)
             \o (IF Has("low") THEN <<"low">> ELSE <<>>)
             \o (IF \E c \in DOMAIN categories : categories[c].flagged
                 THEN <<"categories with issues">> ELSE <<>>)
        ELSE <<>>)
    \o (IF Len(matches) = 0 /\ comment_analysis.warning_comments = 0
        THEN IF has_transcript THEN <<"no concerns">> ELSE <<"limited analysis">>
        ELSE <<"review the warnings">>)

\* Steps 4 to 8.5 and the dict analyze() returns.
AnalysisResult(sigs, a) ==
    LET warnings == AnalysisWarnings(a)
        ai_generated == a.comment_analysis.has_ai_content
        ai_warnings == {i \in DOMAIN warnings : warnings[i].category = "AI Content"}
        categories == [i \in DOMAIN a.metadata_matches |-> a.metadata_matches[i].category]
    IN [raised |-> FALSE,
        safety_score |-> SafetyScore(a),
        warnings |-> warnings,
        categories |-> AnalyzeCategories(a.signature_matches),
        summary |-> GenerateSummary(a.signature_matches,
                                    AnalyzeCategories(a.signature_matches),
                                    a.transcript_available, a.comment_analysis,
                                    a.title_red_flags),
        transcript_available |-> a.transcript_available,
        ai_generated |-> ai_generated,
        ai_confidence |-> IF ai_generated
                          THEN (IF Cardinality(ai_warnings) >= 2 THEN 85 ELSE 60)
                          ELSE 0,
        comments_analyzed |-> a.comment_analysis.total_comments,
        channel |-> a.channel_name,
        is_trusted_channel |-> a.is_trusted_channel,
        video_title |-> a.video_title,
        debunk_searches |-> DebunkSearches(sigs, 1, {categories[i] : i \in DOMAIN categories}),
        matched_metadata_categories |-> categories,
        is_debunking |-> a.is_debunking,
        ai_review |-> a.ai_review_results,
        ai_transcript_concerns |-> a.ai_transcript_concerns]

----------------------------------------------------------------------------
(* The matcher on its own: a store and a text are drawn, _match_signatures *)
(* is applied.                                                             *)

\* The signatures a drawn store is made of.
MatcherSignatures ==
    <<Chemical001, Medical001, RegexSig, OshaFile, BrokenRegexSig,
      OccultWithTriggers>>

\* The phrases a drawn text is made of.
MatcherSegments ==
    << <<"mix", "bleach", "and", "ammonia">>,
       <<"never", "mix">>,
       <<"drink", "bleach", "to", "detox">>,
       <<"MIX", "BLEACH", "and", "ammonia">>,
       <<"bleach", "with", "vinegar", "safely">> >>

RECURSIVE Concat(_, _)
Concat(segs, picks) ==
    IF Len(picks) = 0 THEN <<>>
    ELSE segs[Head(picks)] \o Concat(segs, Tail(picks))

\* All sequences over 1..n of length at most k.
SeqsUpTo(n, k) == UNION {[1..m -> 1..n] : m \in 0..k}

MatcherStores ==
    {[i \in DOMAIN picks |-> MatcherSignatures[picks[i]]] :
        picks \in SeqsUpTo(Len(MatcherSignatures), MaxStore)}

MatcherTexts ==
    {Concat(MatcherSegments, picks) :
        picks \in SeqsUpTo(Len(MatcherSegments), MaxSegments)}

InitMatch ==
    /\ pc = "match_signatures"
    /\ signatures \in MatcherStores
    /\ ai_reviewer = NoReviewer
    /\ llm = NoCall
    /\ an = None
    /\ args \in {[text |-> t] : t \in MatcherTexts}
    /\ result = None

\* signature_matches = self._match_signatures(text)
CallMatchSignatures ==
    /\ pc = "match_signatures"
    /\ result' = MatchSignatures(signatures, args.text)
    /\ pc' = "returned"
    /\ UNCHANGED <<signatures, ai_reviewer, llm, an, args>>

NextMatch == CallMatchSignatures

SpecMatch == InitMatch /\ [][NextMatch]_vars

\* What signature i of the store contributes on its own to the matches of a
\* text: nothing if it is metadata-format, every hit of a danger_signatures
\* file, and for a triggers-form signature its one match unless one of its
\* exclusion phrases occurs in the text.
ExclusionOccurs(signature, text) ==
    \E e \in DOMAIN signature.exclusions :
        Occurs(Lower(signature.exclusions[e]), text)

OwnMatches(sigs, i, text) ==
    IF IsMetadataFormat(sigs[i]) THEN <<>>
    ELSE IF "danger_signatures" \in sigs[i].keys
    THEN ScanDangerSignatures(sigs[i], text, 1, <<>>).matches
    ELSE IF ExclusionOccurs(sigs[i], text) THEN <<>>
    ELSE ScanTriggers(sigs[i], i, text, 1, <<>>).matches

RECURSIVE AllOwnMatches(_, _, _)
AllOwnMatches(sigs, i, text) ==
    IF i > Len(sigs) THEN <<>>
    ELSE OwnMatches(sigs, i, text) \o AllOwnMatches(sigs, i + 1, text)

MatcherReturned ==
    /\ pc = "returned"
    /\ ~result.raised

\* C7: an exclusion phrase in the text removes exactly the match of the
\* triggers-form signature it belongs to: the returned matches are, in store
\* order, what each signature contributes on its own, so the matches of every
\* other signature (earlier or later) are all returned and a signature that
\* did not match removes nothing.
C7_ExclusionRemovesOnlyOwnMatch ==
    MatcherReturned =>
        result.matches = AllOwnMatches(signatures, 1, args.text)

\* C7 witness: a signature matched and was vetoed by its exclusion phrase
\* while an earlier and a later signature each keep a match in the result.
C7_Witness ==
    /\ MatcherReturned
    /\ \E i \in DOMAIN signatures :
        /\ ~IsMetadataFormat(signatures[i])
        /\ "danger_signatures" \notin signatures[i].keys
        /\ ScanTriggers(signatures[i], i, args.text, 1, <<>>).matches # <<>>
        /\ ExclusionOccurs(signatures[i], args.text)
        /\ \E m \in DOMAIN result.matches :
              result.matches[m].obj \in 1..(i - 1)
        /\ \E m \in DOMAIN result.matches :
              result.matches[m].obj > i
        /\ \A m \in DOMAIN result.matches : result.matches[m].obj # i

----------------------------------------------------------------------------
(* The metadata matcher on its own: a store, a title, a description, a     *)
(* channel and a transcript are drawn, _match_metadata_signatures is       *)
(* applied.                                                                *)

MaxMetaStore == 2    \* signatures in a store drawn for the metadata matcher

MetaSignatures == <<OccultSig, PseudoHistorySig, PopCultureSig, Chemical001>>

MetaStores ==
    {[i \in DOMAIN picks |-> MetaSignatures[picks[i]]] :
        picks \in SeqsUpTo(Len(MetaSignatures), MaxMetaStore)}

MetaTitles ==
    { <<>>,
      <<"zodiac", "revenge">>,
      <<"daily", "horoscope">>,
      <<"TARTARIA", "the", "truth", "DEBUNKED">>,
      <<"fashwave", "mix">>,
      <<"cyr_slovo", "cyr_taro">>,
      <<"cyr_slovo", "zodiac_sign_virgo">>,
      <<"cyr_slovo", "cyr_slovo">> }

MetaDescriptions ==
    { <<>>,
      <<"zodiac", "tarot">>,
      <<"tarot", "reading">>,
      <<"(">>,
      <<"hidden", "history">>,
      <<"revenge", "enemy">>,
      <<"#signs">>,
      <<"tarot", "reading", "#signs">> }

MetaChannels ==
    {"", "Sacred Taro UA", "sacred taro ua", " Sacred Taro UA ", "History Decoder"}

MetaTranscripts == { <<>>, <<"enemy">>, <<"cabal">> }

InitMeta ==
    /\ pc = "match_metadata_signatures"
    /\ signatures \in MetaStores
    /\ ai_reviewer = NoReviewer
    /\ llm = NoCall
    /\ an = None
    /\ args \in [title : MetaTitles, description : MetaDescriptions,
                 channel : MetaChannels, transcript : MetaTranscripts]
    /\ result = None

\* metadata_matches = self._match_metadata_signatures(title, description,
\*                                                    channel, transcript)
CallMatchMetadataSignatures ==
    /\ pc = "match_metadata_signatures"
    /\ result' = Returned(MatchMetadataSignatures(signatures, args.title,
                    args.description, args.channel, args.transcript))
    /\ pc' = "returned"
    /\ UNCHANGED <<signatures, ai_reviewer, llm, an, args>>

NextMeta == CallMatchMetadataSignatures

SpecMeta == InitMeta /\ [][NextMeta]_vars

\* The texts the metadata matcher works on.
MetaTitle == Lower(args.title)
MetaDescription == Lower(args.description)
MetaAllText == MetaTitle \o MetaDescription \o Lower(args.transcript)

\* The weight the six signals of the code add up to for one signature.
AccumulatedWeight(signature) ==
    LET w == (IF TitlePatternHits(signature, MetaTitle) THEN 3 ELSE 0)
           + (IF DescriptionPatternReason(signature, MetaDescription, 1) # None
              THEN 2 ELSE 0)
           + (IF CoOccurrenceFires(signature, MetaAllText) THEN 4 ELSE 0)
           + (IF KnownBadChannel(signature, args.channel) THEN 5 ELSE 0)
           + (IF KnownBadHashtag(signature, MetaAllText) THEN 3 ELSE 0)
    IN IF /\ signature.non_latin_enabled
          /\ w < 2
          /\ NonLatinSignal(signature, MetaTitle \o MetaDescription)
       THEN w + 3 ELSE w

MatchesOf(signature) ==
    {m \in DOMAIN result.matches :
        result.matches[m].category = signature.category}

\* C5: a metadata signature has a match in the result exactly when its
\* accumulated weight is at least 2, the match carries that weight, and no
\* emitted match has a weight below 2.
C5_MatchIffWeightAtLeast2 ==
    pc = "returned" =>
        /\ \A m \in DOMAIN result.matches : result.matches[m].match_weight >= 2
        /\ \A i \in DOMAIN signatures :
              IsMetadataFormat(signatures[i]) =>
                /\ (MatchesOf(signatures[i]) # {})
                      <=> (AccumulatedWeight(signatures[i]) >= 2)
                /\ \A m \in MatchesOf(signatures[i]) :
                      result.matches[m].match_weight
                          = AccumulatedWeight(signatures[i])

\* C5 witness: one signature is emitted with the least weight, 2 (a single
\* description pattern), and another signature of the store, with no signal
\* at all, is not emitted.
C5_Witness ==
    /\ pc = "returned"
    /\ \E i, j \in DOMAIN signatures :
          /\ IsMetadataFormat(signatures[i])
          /\ IsMetadataFormat(signatures[j])
          /\ AccumulatedWeight(signatures[i]) = 2
          /\ MatchesOf(signatures[i]) # {}
          /\ AccumulatedWeight(signatures[j]) = 0
          /\ MatchesOf(signatures[j]) = {}

\* Two distinct list-valued groups other than 'evasion_tactics' each have a
\* term in the combined text.
TwoGroupsHit(signature) ==
    \E g1, g2 \in DOMAIN signature.co_occurrence_signals :
        /\ g1 # g2
        /\ \A g \in {g1, g2} :
              /\ g # "evasion_tactics"
              /\ signature.co_occurrence_signals[g].is_list
              /\ \E k \in DOMAIN signature.co_occurrence_signals[g].terms :
                    Occurs(Lower(signature.co_occurrence_signals[g].terms[k]),
                           MetaAllText)

HasReason(match, reason) ==
    \E r \in DOMAIN match.reasons : match.reasons[r] = reason

\* C6: the match of a metadata signature carries the co-occurrence reason
\* (and its +4) exactly when two distinct term groups, 'evasion_tactics'
\* aside, each have a term in title+description+transcript.
C6_CoOccurrenceIffTwoGroups ==
    pc = "returned" =>
        \A i \in DOMAIN signatures :
            IsMetadataFormat(signatures[i]) =>
              /\ TwoGroupsHit(signatures[i]) =>
                    /\ MatchesOf(signatures[i]) # {}
                    /\ \A m \in MatchesOf(signatures[i]) :
                          /\ HasReason(result.matches[m], "co_occurrence")
                          /\ result.matches[m].match_weight >= 4
              /\ ~TwoGroupsHit(signatures[i]) =>
                    \A m \in MatchesOf(signatures[i]) :
                        ~HasReason(result.matches[m], "co_occurrence")

\* C6 witness: in one call a signature with two terms of a single group in
\* the text is matched (by its channel) without the co-occurrence reason,
\* and a signature with terms of two groups carries it.
C6_Witness ==
    /\ pc = "returned"
    /\ \E i, j \in DOMAIN signatures :
          /\ IsMetadataFormat(signatures[i])
          /\ \E g \in TermGroups(signatures[i]) :
                Cardinality({k \in DOMAIN signatures[i].co_occurrence_signals[g].terms :
                    Occurs(signatures[i].co_occurrence_signals[g].terms[k],
                           MetaAllText)}) = 2
          /\ ~TwoGroupsHit(signatures[i])
          /\ \E m \in MatchesOf(signatures[i]) :
                ~HasReason(result.matches[m], "co_occurrence")
          /\ IsMetadataFormat(signatures[j])
          /\ \E m \in MatchesOf(signatures[j]) :
                HasReason(result.matches[m], "co_occurrence")

----------------------------------------------------------------------------
(* The arbitrator on its own: a reviewer and a flagged video are drawn,    *)
(* review_flagged_content runs once, the provider answering as it likes    *)

\* Reviewers __init__ can build: a provider with its client, a provider
\* named without a key (no client), or the heuristic.
Reviewers ==
    { [provider |-> "openai", client |-> TRUE],
      [provider |-> "anthropic", client |-> TRUE],
      [provider |-> "openai", client |-> FALSE],
      [provider |-> "anthropic", client |-> FALSE],
      [provider |-> "heuristic", client |-> FALSE] }

ReviewTitles ==
    { << >>, <<"TARTARIA", "DEBUNKED">>, <<"why", "tartaria", "is", "wrong">>,
      <<"tartaria", "explained">>, <<"the", "hidden", "truth", "about", "tartaria">> }

ReviewDescriptions ==
    { << >>, <<"misinformation">>, <<"conspiracy", "theory", "misinformation">>,
      <<"has", "been", "debunked", "conspiracy", "theory", "misinformation">>,
      <<"professor">> }

ReviewTranscripts ==
    { << >>, <<"no", "evidence">>, <<"university", "professor", "phd">>,
      <<"university", "professor", "no", "evidence">> }

\* Responses a provider can send: any verdict, any confidence.
RawVerdicts == VALID_VERDICTS \cup {"dangerous"}

RawConfidences ==
    { Number(0), Number(30), Number(59), Number(60), Number(61), Number(90),
      Number(100), Number(0 - 50), Number(150),
      NotANumber, JsonTrue, JsonString, Missing }

LlmOutcomes ==
    { [outcome |-> "error", response |-> [verdict |-> "neutral", confidence |-> Missing]] }
    \cup { [outcome |-> "ok", response |-> [verdict |-> v, confidence |-> c]] :
             v \in RawVerdicts, c \in RawConfidences }

InitReview ==
    /\ pc = "call"
    /\ signatures = << >>
    /\ ai_reviewer \in Reviewers
    /\ llm = NoCall
    /\ an = None
    /\ args \in [title : ReviewTitles, description : ReviewDescriptions,
                 transcript : ReviewTranscripts]
    /\ result = None

\* await review_flagged_content(title, description, channel, transcript, category)
CallReviewFlaggedContent ==
    /\ pc = "call"
    /\ \E answer \in LlmOutcomes :
          /\ llm' = IF IsAiEnabled(ai_reviewer) THEN answer ELSE NoCall
          /\ result' = ReviewFlaggedContent(
                           ai_reviewer,
                           HeuristicIsDebunking(args.title, args.description,
                                                args.transcript),
                           answer)
    /\ pc' = "done"
    /\ UNCHANGED <<signatures, ai_reviewer, an, args>>

NextReview == CallReviewFlaggedContent

SpecReview == InitReview /\ [][NextReview]_vars

ReviewHeuristic ==
    HeuristicIsDebunking(args.title, args.description, args.transcript)

ReviewAiResult == AiReviewContext(ai_reviewer, ReviewHeuristic, llm)

LlmAnswered == pc = "done" /\ llm.outcome = "ok"
LlmFailed == pc = "done" /\ llm.outcome = "error"

\* C8: with an LLM enabled, an answer whose normalized confidence is at
\* least 0.6 is what review_flagged_content returns (verdict, confidence,
\* is_dangerous), with should_suppress = not is_dangerous, whatever the
\* heuristic found.
C8_ConfidentLlmOverrides ==
    (LlmAnswered /\ ConfGe(ReviewAiResult.confidence, 60)) =>
        /\ result.verdict = ReviewAiResult.verdict
        /\ result.confidence = ReviewAiResult.confidence
        /\ result.is_dangerous = ReviewAiResult.is_dangerous
        /\ result.is_dangerous = (llm.response.verdict = "promoting")
        /\ result.should_suppress = ~result.is_dangerous

\* A confident LLM overrides a heuristic that disagrees with it.
C8_Witness ==
    /\ LlmAnswered
    /\ ConfGe(ReviewAiResult.confidence, 60)
    /\ ReviewHeuristic.is_debunking
    /\ ReviewHeuristic.confidence >= 50
    /\ result.is_dangerous
    /\ ~result.should_suppress

\* C9: with an LLM result of confidence below 0.6, a heuristic that says
\* debunking with confidence at least 0.5 suppresses the warning and the
\* reported confidence is the larger of the two; otherwise should_suppress
\* is is_debunking and heuristic confidence >= 0.3.
C9_LowConfidenceCombines ==
    (pc = "done" /\ llm.outcome # "none" /\ ConfLt(ReviewAiResult.confidence, 60)) =>
        IF ReviewHeuristic.is_debunking /\ ReviewHeuristic.confidence >= 50
        THEN /\ result.should_suppress
             /\ result.confidence >= ReviewAiResult.confidence
             /\ result.confidence >= ReviewHeuristic.confidence
             /\ result.confidence \in {ReviewAiResult.confidence,
                                       ReviewHeuristic.confidence}
        ELSE result.should_suppress =
                (ReviewHeuristic.is_debunking /\ ReviewHeuristic.confidence >= 30)

\* An unsure LLM and a surer debunking heuristic: the heuristic's
\* confidence is the one reported.
C9_Witness ==
    /\ LlmAnswered
    /\ ConfLt(ReviewAiResult.confidence, 60)
    /\ ReviewHeuristic.confidence >= 50
    /\ ReviewHeuristic.confidence > ReviewAiResult.confidence
    /\ result.should_suppress
    /\ result.confidence = ReviewHeuristic.confidence

\* C10: when the LLM call fails, review_flagged_content returns the
\* heuristic's suppression decision and its method names the degraded
\* path (heuristic_fallback), at every heuristic confidence.
C10_FailureTaggedDegraded ==
    LlmFailed =>
        /\ result.should_suppress = ReviewHeuristic.is_debunking
        /\ result.method \in {"heuristic_fallback", "heuristic_fallback+heuristic"}

\* What holds of a failed call: the decision is the heuristic's, and the
\* tag survives only from heuristic confidence 0.5 up.
C10_FailureDecidedByHeuristic ==
    LlmFailed =>
        /\ result.should_suppress = ReviewHeuristic.is_debunking
        /\ result.confidence = ReviewHeuristic.confidence
        /\ result.method =
             IF ReviewHeuristic.confidence >= 60 THEN "heuristic_fallback"
             ELSE IF ReviewHeuristic.confidence >= 50
                  THEN "heuristic_fallback+heuristic"
                  ELSE "heuristic"

C10_Witness ==
    /\ LlmFailed
    /\ ReviewHeuristic.confidence < 50
    /\ result.method = "heuristic"

----------------------------------------------------------------------------
(* analyze() as a whole: an analyzer (store, reviewer) and a request are   *)
(* drawn; YouTube, the transcript service and the LLM answer as they like  *)

AnalyzeSignatures ==
    <<Chemical001, Medical001, OshaFile, OccultSig, PseudoHistorySig,
      PopCultureSig, BrokenRegexSig>>

\* The stores, as places in AnalyzeSignatures.
AnalyzeStorePicks == { <<1, 2, 3>>, <<1, 4, 5, 6>>, <<1, 7>> }

AnalyzeStores ==
    {[i \in DOMAIN picks |-> AnalyzeSignatures[picks[i]]] : picks \in AnalyzeStorePicks}

AnalyzeReviewers ==
    { NoReviewer, [provider |-> "heuristic", client |-> FALSE],
      [provider |-> "openai", client |-> TRUE] }

AnalyzeTitles ==
    { << >>,
      <<"Mix", "bleach", "and", "ammonia", "for", "cleaning">>,
      <<"cat", "driving", "a", "car">>,
      <<"toddler", "hugs", "python">>,
      <<"secret", "cure", "for", "gardening">>,
      <<"virgo", "revenge">>,
      <<"hidden", "TARTARIA", "DEBUNKED">>,
      <<"fashwave", "mix">> }

AnalyzeDescriptions ==
    { << >>,
      <<"tarot", "reading">>,
      <<"hidden", "empire", "of", "tartaria">>,
      <<"street", "racing", "#talkingcat", "#aivideo">>,
      <<"cure", "cancer", "secret", "remedy", "make", "bomb", "street",
        "racing", "mix", "bleach", "and", "ammonia">> }

AnalyzeChannels == {"", "BBC", "Sacred Taro UA", "Pet Talk"}

\* get_video_metadata: nothing (no key, an error, no such video) or the
\* video's metadata.
MetadataOutcomes ==
    { [found |-> FALSE, channel |-> "", title |-> <<>>, description |-> <<>>,
       tags |-> <<>>],
      [found |-> TRUE, channel |-> "", title |-> <<>>, description |-> <<>>,
       tags |-> << <<"talking", "cat">> >>],
      [found |-> TRUE, channel |-> "Pet Talk", title |-> <<"cat", "driving", "a", "car">>,
       description |-> <<"tarot", "reading">>, tags |-> <<>>] }

\* _get_transcript: ("", False), or the lower-cased text and True.
TranscriptOutcomes ==
    { [available |-> FALSE, text |-> <<>>],
      [available |-> TRUE, text |-> <<"hello", "everyone">>],
      [available |-> TRUE, text |-> <<"drink", "BLEACH", "to", "detox">>] }

\* _analyze_comments: no comments, or what analyze_comments made of them.
CommentOutcomes ==
    { NoCommentAnalysis,
      [NoCommentAnalysis EXCEPT !.total_comments = 5],
      [NoCommentAnalysis EXCEPT !.total_comments = 5, !.warning_comments = 2,
          !.warning_score = 40,
          !.warnings = <<Warning("Community Warning", "high", "Comment: this is toxic")>>,
          !.top_concerns = << <<"toxic", "fumes">> >>],
      [NoCommentAnalysis EXCEPT !.total_comments = 9, !.warning_comments = 9,
          !.warning_score = 0,
          !.warnings = <<Warning("Community Warning", "high", "Comment: do not try"),
                         Warning("Community Warning", "medium", "Comment: fake")>>,
          !.top_concerns = << <<"never", "mix">> >>],
      [NoCommentAnalysis EXCEPT !.total_comments = 3, !.has_ai_content = TRUE,
          !.warnings = <<Warning("AI Content", "medium", "Comment: this is ai")>>] }

\* What the provider answers to a review.
AnalyzeLlmOutcomes ==
    { [outcome |-> "error", response |-> [verdict |-> "neutral", confidence |-> Missing]],
      [outcome |-> "ok", response |-> [verdict |-> "promoting", confidence |-> Number(90)]],
      [outcome |-> "ok", response |-> [verdict |-> "debunking", confidence |-> Number(90)]],
      [outcome |-> "ok", response |-> [verdict |-> "neutral", confidence |-> Number(30)]] }

\* What analyze_transcript_safety returns.
DeepOutcomes ==
    { [concerns |-> <<>>, overall_risk |-> "low"],
      [concerns |-> <<[category |-> "fire_safety", severity |-> "medium",
                       description |-> "open flame indoors"]>>,
       overall_risk |-> "medium"],
      [concerns |-> <<[category |-> "medical_misinfo", severity |-> "high",
                       description |-> "replaces medicine"]>>,
       overall_risk |-> "high"] }

InitAnalyze ==
    /\ pc = "metadata"
    /\ signatures \in AnalyzeStores
    /\ ai_reviewer \in AnalyzeReviewers
    /\ llm = NoCall
    /\ an = NoAnalysis
    /\ args \in [scraped_title : AnalyzeTitles,
                 scraped_description : AnalyzeDescriptions,
                 scraped_channel : AnalyzeChannels]
    /\ result = None

\* Step 0: await fetcher.get_video_metadata(video_id)
FetchMetadata ==
    /\ pc = "metadata"
    /\ \E metadata \in MetadataOutcomes : an' = Step0(args, metadata)
    /\ pc' = "transcript"
    /\ UNCHANGED <<signatures, ai_reviewer, llm, args, result>>

\* Step 1: await self._get_transcript(video_id)
GetTranscript ==
    /\ pc = "transcript"
    /\ \E t \in TranscriptOutcomes :
          an' = [an EXCEPT !.transcript_text = Lower(t.text),
                           !.transcript_available = t.available]
    /\ pc' = "comments"
    /\ UNCHANGED <<signatures, ai_reviewer, llm, args, result>>

\* The review loop is entered: a reviewer, and matches to review.
ReviewAhead(a) == ai_reviewer # NoReviewer /\ Len(a.pending) > 0

\* Step 3.7 is entered.
DeepAhead(a) ==
    /\ ai_reviewer # NoReviewer
    /\ IsAiEnabled(ai_reviewer)
    /\ Len(a.transcript_text) > 0
    /\ ~a.is_trusted_channel

\* Where analyze() stands with locals a: raised, at the next await, or
\* returned.
Continue(a) ==
    IF a.raised THEN pc' = "raised" /\ result' = Raised
    ELSE IF ReviewAhead(a) THEN pc' = "review" /\ result' = result
    ELSE IF DeepAhead(a) THEN pc' = "deep" /\ result' = result
    ELSE pc' = "returned" /\ result' = AnalysisResult(signatures, a)

\* Step 2: await self._analyze_comments(video_id), and on to the next await.
AnalyzeComments ==
    /\ pc = "comments"
    /\ \E c \in CommentOutcomes :
          LET a == Step3(signatures, ai_reviewer,
                     Step2_7(Step2_6(Step2_5(
                         TrustedFilter([an EXCEPT !.comment_analysis = c])))))
          IN an' = a /\ Continue(a)
    /\ UNCHANGED <<signatures, ai_reviewer, llm, args>>

\* Step 3.6: await self.ai_reviewer.review_flagged_content(...) for the
\* next match, and on to the next await.
ReviewMatch ==
    /\ pc = "review"
    /\ \E reply \in AnalyzeLlmOutcomes :
          LET a == Step3_6(ai_reviewer, an, reply)
          IN /\ llm' = IF IsAiEnabled(ai_reviewer) THEN reply ELSE NoCall
             /\ an' = a
             /\ Continue(a)
    /\ UNCHANGED <<signatures, ai_reviewer, args>>

\* Step 3.7: await self.ai_reviewer.analyze_transcript_safety(...), and on
\* to the return.
AnalyzeTranscriptSafety ==
    /\ pc = "deep"
    /\ \E deep_analysis \in DeepOutcomes :
          LET a == Step3_7(an, deep_analysis)
          IN /\ an' = a
             /\ pc' = "returned"
             /\ result' = AnalysisResult(signatures, a)
    /\ UNCHANGED <<signatures, ai_reviewer, llm, args>>

NextAnalyze ==
    \/ FetchMetadata
    \/ GetTranscript
    \/ AnalyzeComments
    \/ ReviewMatch
    \/ AnalyzeTranscriptSafety

SpecAnalyze == InitAnalyze /\ [][NextAnalyze]_vars

AnalyzeReturned == pc = "returned"

\* C1: the safety_score analyze() returns is an integer in [0, 100],
\* whatever the transcript, the comment score, the matches, the detectors
\* and the channel.
C1_ScoreInRange ==
    AnalyzeReturned => result.safety_score \in 0..100

\* Both ends are met: a score of 0 and a score above 90.
C1_Witness ==
    /\ AnalyzeReturned
    /\ an.is_trusted_channel
    /\ result.safety_score > 90

\* The worst severity among the title red flags of the analysis.
WorstRedFlag(severities) ==
    /\ Len(an.title_red_flags) > 0
    /\ an.title_red_flags[FirstMax([i \in DOMAIN an.title_red_flags |->
           SeverityRank(an.title_red_flags[i].severity)])].severity \in severities

BleachScenario ==
    /\ an.video_title = <<"Mix", "bleach", "and", "ammonia", "for", "cleaning">>
    /\ ~an.is_trusted_channel
    /\ ~an.transcript_available
    /\ an.comment_analysis.total_comments = 0

\* C2: a heuristic detector's cap bounds the returned safety_score: at most
\* 20 when the AI-content detector fired, at most 10 when the
\* animal-near-child detector fired, at most 30 when a title red flag of
\* severity high or critical fired, at most 55 when the worst red flag is
\* medium; the bleach-and-ammonia title scores at most 30.
C2_CapsBoundReturnedScore ==
    AnalyzeReturned =>
        /\ an.heuristic_ai # None => result.safety_score <= 20
        /\ an.dangerous_animal_child # None => result.safety_score <= 10
        /\ WorstRedFlag({"high", "critical"}) => result.safety_score <= 30
        /\ WorstRedFlag({"medium"}) => result.safety_score <= 55
        /\ BleachScenario =>
              /\ \E i \in DOMAIN an.title_red_flags :
                    /\ an.title_red_flags[i].category = "Chemical"
                    /\ an.title_red_flags[i].severity = "high"
              /\ result.safety_score <= 30

\* What the caps do bound: the comment score that enters the blend.
C2_CapsBoundCommentScore ==
    AnalyzeReturned =>
        /\ an.heuristic_ai # None => an.comment_analysis.warning_score <= 20
        /\ an.dangerous_animal_child # None => an.comment_analysis.warning_score <= 10
        /\ WorstRedFlag({"high", "critical"}) => an.comment_analysis.warning_score <= 30
        /\ WorstRedFlag({"medium"}) => an.comment_analysis.warning_score <= 55

\* The bleach-and-ammonia title, returned with a score above 30.
C2_Witness ==
    /\ AnalyzeReturned
    /\ BleachScenario
    /\ WorstRedFlag({"high", "critical"})
    /\ result.safety_score > 30

NoEvidence ==
    /\ ~an.transcript_available
    /\ an.comment_analysis.total_comments = 0
    /\ ~an.is_trusted_channel

\* C3: with no transcript, no comments and an untrusted channel the
\* returned safety_score is at most 72; with an empty title and
\* description and no signature match besides, it is exactly 72 and the
\* warnings list is empty.
C3_UncertaintyCap ==
    (AnalyzeReturned /\ NoEvidence) =>
        /\ result.safety_score <= 72
        /\ (/\ an.video_title = <<>>
            /\ an.video_description = <<>>
            /\ an.signature_matches = <<>>)
           => (result.safety_score = 72 /\ result.warnings = <<>>)

\* The empty video, capped.
C3_Witness ==
    /\ AnalyzeReturned
    /\ NoEvidence
    /\ an.video_title = <<>>
    /\ an.video_description = <<>>
    /\ an.signature_matches = <<>>
    /\ result.safety_score = 72
    /\ WeightedScore(FALSE, TranscriptScore(an), an.comment_analysis.warning_score) > 72

\* The ceiling as the claim words it.
ClaimedCeiling ==
    LET ms == an.metadata_matches
        w == CHOOSE x \in {ms[i].match_weight : i \in DOMAIN ms} :
                \A i \in DOMAIN ms : ms[i].match_weight <= x
    IN IF \E i \in DOMAIN ms : ms[i].severity = "high"
       THEN (IF 45 - 3 * w >= 10 THEN 45 - 3 * w ELSE 10)
       ELSE IF \E i \in DOMAIN ms : ms[i].severity = "medium" THEN 65
       ELSE 80

\* C4: with a metadata match surviving arbitration the returned
\* safety_score is at most the ceiling (max(10, 45 - 3w) for high, 65 for
\* medium, 80 for low), and a score already at or below it is unchanged.
C4_MetadataCeiling ==
    (AnalyzeReturned /\ Len(an.metadata_matches) > 0) =>
        /\ result.safety_score <= ClaimedCeiling
        /\ RunningScore(an) <= ClaimedCeiling => result.safety_score = RunningScore(an)

\* A high-severity match of weight 3 pulls a higher score down to 36.
C4_Witness ==
    /\ AnalyzeReturned
    /\ Len(an.metadata_matches) > 0
    /\ ClaimedCeiling = 36
    /\ RunningScore(an) > 36
    /\ result.safety_score = 36

----------------------------------------------------------------------------
(* _validate_result on its own: a provider with its client has answered,   *)
(* json.loads has parsed the answer into a dict, and _validate_result      *)
(* normalizes it.                                                          *)

\* result.get("verdict"): any string, or None when the key is missing.
ParsedVerdicts == RawVerdicts \cup {None}

\* The 'is_dangerous' the model supplied.
ParsedDangerFlags == {"true", "false", "missing"}

ParsedResponses ==
    [verdict : ParsedVerdicts, confidence : RawConfidences,
     is_dangerous : ParsedDangerFlags]

InitValidate ==
    /\ pc = "call"
    /\ signatures = << >>
    /\ ai_reviewer \in {r \in Reviewers : IsAiEnabled(r)}
    /\ llm = NoCall
    /\ an = None
    /\ args \in ParsedResponses
    /\ result = None

\* validated = self._validate_result(result); validated["method"] = provider
CallValidateResult ==
    /\ pc = "call"
    /\ result' = ValidateResult(args, ai_reviewer.provider)
    /\ pc' = "done"
    /\ UNCHANGED <<signatures, ai_reviewer, llm, an, args>>

NextValidate == CallValidateResult

SpecValidate == InitValidate /\ [][NextValidate]_vars

\* The confidences the claim sends to 0.5: missing, non-numeric, negative
\* or above 1.
ConfidenceToDefault(c) ==
    \/ c.kind \in {"missing", "string", "nan", "bool"}
    \/ c.kind = "number" /\ (c.value < 0 \/ c.value > 100)

\* C11: _validate_result returns a verdict of the five valid ones (any
\* other or missing verdict becomes neutral), a confidence in [0,1]
\* (missing, non-numeric, negative or > 1 becomes 0.5) and is_dangerous =
\* (verdict = promoting), whatever is_dangerous the model supplied.
C11_ValidatedResult ==
    pc = "done" =>
        /\ result.verdict \in VALID_VERDICTS
        /\ result.verdict =
             (IF args.verdict \in VALID_VERDICTS THEN args.verdict ELSE "neutral")
        /\ result.confidence \in 0..100
        /\ ConfidenceToDefault(args.confidence) => result.confidence = 50
        /\ result.is_dangerous = (result.verdict = "promoting")

\* What holds: verdict and is_dangerous are normalized as stated; the
\* confidence is in [0,1] except that a NaN stays NaN and JSON true
\* becomes 1.0.
C11_ValidatedExceptNaNAndBool ==
    pc = "done" =>
        /\ result.verdict \in VALID_VERDICTS
        /\ result.verdict =
             (IF args.verdict \in VALID_VERDICTS THEN args.verdict ELSE "neutral")
        /\ result.is_dangerous = (result.verdict = "promoting")
        /\ args.confidence.kind = "nan" => result.confidence = NaN
        /\ args.confidence.kind = "bool" => result.confidence = 100
        /\ args.confidence.kind \notin {"nan", "bool"} =>
              /\ result.confidence \in 0..100
              /\ ConfidenceToDefault(args.confidence) => result.confidence = 50

\* A response {"verdict": "debunking", "confidence": NaN, "is_dangerous":
\* true} has been validated: NaN is still its confidence.
C11_Witness ==
    /\ pc = "done"
    /\ args.verdict = "debunking"
    /\ args.confidence = NotANumber
    /\ args.is_dangerous = "true"
    /\ result.confidence = NaN
    /\ ~result.is_dangerous

----------------------------------------------------------------------------
(* Claims about analyze() as a whole, checked under SpecAnalyze            *)

\* The metadata matches that fired for the video, before any review.
FiredMetadataMatches ==
    MatchMetadataSignatures(signatures, an.video_title, an.video_description,
                            an.channel_name, an.transcript_text)

\* The arbitrator suppressed match m: its review said so or, without a
\* reviewer, the heuristic found debunking with confidence >= 0.3.
SuppressedMatch(m) ==
    IF ai_reviewer = NoReviewer
    THEN LET heuristic == HeuristicIsDebunking(an.video_title, an.video_description,
                                               an.transcript_text)
         IN heuristic.is_debunking /\ heuristic.confidence >= 30
    ELSE /\ m.category \in DOMAIN result.ai_review
         /\ result.ai_review[m.category].should_suppress

RECURSIVE KeptOf(_)
KeptOf(matches) ==
    IF Len(matches) = 0 THEN <<>>
    ELSE (IF SuppressedMatch(Head(matches)) THEN <<>> ELSE <<Head(matches)>>)
         \o KeptOf(Tail(matches))

RECURSIVE LegacyOf(_)
LegacyOf(matches) ==
    IF Len(matches) = 0 THEN <<>>
    ELSE (IF Head(matches).match_type # "metadata" THEN <<Head(matches)>> ELSE <<>>)
         \o LegacyOf(Tail(matches))

\* The score of the same analysis with the suppressed matches left out of
\* the matches and of the metadata ceiling.
ScoreWithoutSuppressed ==
    SafetyScore([an EXCEPT
        !.metadata_matches = KeptOf(FiredMetadataMatches),
        !.signature_matches = LegacyOf(an.signature_matches)
                              \o KeptOf(FiredMetadataMatches)])

WarningOf(m) == Warning(GetCategoryName(m.category), m.severity, m.id)

\* C12: a suppressed metadata match makes is_debunking true and leaves no
\* warning, no entry in matched_metadata_categories, no debunk_searches
\* and no trace in the score; a match that is not suppressed keeps its
\* warning; is_debunking is true only if some match was suppressed.
C12_SuppressedMatchLeavesNothing ==
    AnalyzeReturned =>
        LET fired == FiredMetadataMatches IN
        /\ \A i \in DOMAIN fired :
              IF SuppressedMatch(fired[i])
              THEN /\ result.is_debunking
                   /\ \A w \in DOMAIN result.warnings :
                         result.warnings[w] # WarningOf(fired[i])
                   /\ \A c \in DOMAIN result.matched_metadata_categories :
                         result.matched_metadata_categories[c] # fired[i].category
                   /\ \A j \in DOMAIN signatures :
                         signatures[j].category = fired[i].category =>
                            \A k \in DOMAIN signatures[j].debunk_searches :
                               \A d \in DOMAIN result.debunk_searches :
                                  result.debunk_searches[d] # signatures[j].debunk_searches[k]
              ELSE \E w \in DOMAIN result.warnings :
                      result.warnings[w] = WarningOf(fired[i])
        /\ result.safety_score = ScoreWithoutSuppressed
        /\ result.is_debunking => \E i \in DOMAIN fired : SuppressedMatch(fired[i])

\* "hidden TARTARIA DEBUNKED" without a reviewer: the pseudo-history match
\* fired, the heuristic suppressed it, nothing of it is left.
C12_Witness ==
    /\ AnalyzeReturned
    /\ ai_reviewer = NoReviewer
    /\ an.video_title = <<"hidden", "TARTARIA", "DEBUNKED">>
    /\ Len(FiredMetadataMatches) > 0
    /\ SuppressedMatch(FiredMetadataMatches[1])
    /\ result.is_debunking
    /\ result.matched_metadata_categories = <<>>
    /\ result.debunk_searches = <<>>

----------------------------------------------------------------------------
(* One analyzer, several calls of analyze() one after the other, no LLM    *)
(* configured: the store and the reviewer are the analyzer's state, each   *)
(* call brings a video and what the services return for it.                *)

MaxRuns == 3

\* A store whose signature dicts are shared with the matches, and written
\* to when a match is marked.
StoreAfter_SharedDict(sigs, signature_matches) ==
    [i \in DOMAIN sigs |->
        IF \E k \in DOMAIN signature_matches :
              /\ signature_matches[k].obj = i
              /\ signature_matches[k].match_type = "metadata_trigger"
        THEN [sigs[i] EXCEPT !.keys = @ \cup {"match_type"}]
        ELSE sigs[i]]

\* self.signatures after a call.  The only write of analyze() to an object
\* it did not create in the call is m['match_type'] = 'metadata_trigger',
\* and m is a dict _match_signatures built afresh: the signature it refers
\* to, and the list, are left as they were.
StoreAfter(sigs, signature_matches) == sigs

\* The review loop of step 3.6 without an LLM: no call is made.
RECURSIVE ReviewAll(_, _)
ReviewAll(reviewer, a) ==
    IF a.raised \/ reviewer = NoReviewer \/ Len(a.pending) = 0 THEN a
    ELSE ReviewAll(reviewer, Step3_6(reviewer, a, NoCall))

\* What analyze() hands back with the locals a at its end: the dict
\* returned, or the exception.
RunOutcome(sigs, a) ==
    [locals |-> a,
     result |-> IF a.raised THEN Raised ELSE AnalysisResult(sigs, a)]

\* The locals of analyze() once the metadata, the transcript and the
\* comment analysis of the video are in.
FetchedLocals(video) ==
    [Step0(video.scraped, video.metadata) EXCEPT
        !.transcript_text = Lower(video.transcript.text),
        !.transcript_available = video.transcript.available,
        !.comment_analysis = video.comments]

\* analyze() from the call to the return when no provider is enabled: the
\* locals at the end, and the dict returned (or the exception).
AnalyzeWithoutLlm(sigs, reviewer, video) ==
    RunOutcome(sigs,
        ReviewAll(reviewer,
            Step3(sigs, reviewer,
                Step2_7(Step2_6(Step2_5(TrustedFilter(FetchedLocals(video))))))))

\* Videos, with what YouTube and the transcript service return for them.
RunVideos ==
    { [scraped |-> [scraped_title |-> title, scraped_description |-> <<>>,
                    scraped_channel |-> "Sacred Taro UA"],
       metadata |-> [found |-> FALSE, channel |-> "", title |-> <<>>,
                     description |-> <<>>, tags |-> <<>>],
       transcript |-> t,
       comments |-> NoCommentAnalysis] :
        title \in { <<"Mix", "bleach", "and", "ammonia", "for", "cleaning">>,
                    <<"hidden", "TARTARIA", "DEBUNKED">>,
                    <<"virgo", "revenge">> },
        t \in { [available |-> FALSE, text |-> <<>>],
                [available |-> TRUE, text |-> <<"drink", "BLEACH", "to", "detox">>] } }

RunReviewers == { NoReviewer, [provider |-> "heuristic", client |-> FALSE] }

InitRuns ==
    /\ pc = "idle"
    /\ signatures \in AnalyzeStores
    /\ ai_reviewer \in RunReviewers
    /\ llm = NoCall
    /\ an = [loaded |-> signatures, runs |-> <<>>]
    /\ args = None
    /\ result = None

\* await analyzer.analyze(video_id, ...)
RunAnalyze ==
    /\ pc = "idle"
    /\ Len(an.runs) < MaxRuns
    /\ \E video \in RunVideos :
       \E run \in {AnalyzeWithoutLlm(signatures, ai_reviewer, video)} :
          /\ args' = video
          /\ result' = run.result
          /\ an' = [an EXCEPT !.runs = Append(@, [video |-> video, result |-> run.result])]
          /\ signatures' = StoreAfter(signatures, run.locals.signature_matches)
    /\ UNCHANGED <<pc, ai_reviewer, llm>>

NextRuns == RunAnalyze

SpecRuns == InitRuns /\ [][NextRuns]_vars

----------------------------------------------------------------------------
(* More claims about analyze() as a whole, under SpecAnalyze               *)

AnalyzeFinished == pc \in {"returned", "raised"}

\* Every regular expression of the legacy signatures compiles.
StoreCompiles ==
    \A i \in DOMAIN signatures :
        \/ IsMetadataFormat(signatures[i])
        \/ /\ \A k \in DOMAIN signatures[i].danger_signatures :
                 ~InvalidRegex(signatures[i].danger_signatures[k].pattern)
           /\ signatures[i].is_regex =>
                 \A k \in DOMAIN signatures[i].triggers :
                    ~InvalidRegex(signatures[i].triggers[k])

InSummary(part) == \E i \in DOMAIN result.summary : result.summary[i] = part

----------------------------------------------------------------------------
(* An invalid regular expression in the store, under SpecMatch             *)

\* Signature i is old- or new-format and its first regular expression does
\* not compile.
FirstRegexInvalid(i) ==
    /\ ~IsMetadataFormat(signatures[i])
    /\ IF "danger_signatures" \in signatures[i].keys
       THEN /\ Len(signatures[i].danger_signatures) > 0
            /\ InvalidRegex(signatures[i].danger_signatures[1].pattern)
       ELSE /\ signatures[i].is_regex
            /\ Len(signatures[i].triggers) > 0
            /\ InvalidRegex(signatures[i].triggers[1])

\* C15: a legacy signature with an invalid regular expression is skipped:
\* _match_signatures does not raise, and every other signature of the
\* store still yields the matches it yields on its own.
C15_InvalidRegexSkipped ==
    pc = "returned" =>
        /\ ~result.raised
        /\ \A i \in DOMAIN signatures :
              ~FirstRegexInvalid(i) =>
                 \A k \in DOMAIN OwnMatches(signatures, i, args.text) :
                    \E m \in DOMAIN result.matches :
                       result.matches[m] = OwnMatches(signatures, i, args.text)[k]

\* What holds of _match_signatures: it raises whenever a legacy signature
\* starts with an invalid regular expression, whatever the text and the
\* other signatures, and only when the store holds an invalid one; the
\* matches of the other signatures are then lost.
C15_InvalidLegacyRegexRaises ==
    pc = "returned" =>
        /\ (\E i \in DOMAIN signatures : FirstRegexInvalid(i)) => result.raised
        /\ result.raised => (~StoreCompiles /\ result.matches = <<>>)

\* chemical-001 would match the text, and the store also holds the
\* signature whose expression does not compile: the call raised.
C15_Witness ==
    /\ pc = "returned"
    /\ \E i, j \in DOMAIN signatures :
          /\ FirstRegexInvalid(i)
          /\ ~FirstRegexInvalid(j)
          /\ OwnMatches(signatures, j, args.text) # <<>>
    /\ result.raised


\* The channel of the analysis is in the trusted list, lower-cased.
TrustedChannel ==
    /\ an.channel_name # ""
    /\ LowerW(an.channel_name) \in TRUSTED_CHANNELS

\* C16: for a trusted channel the result has no warning of category
\* "AI Content" and ai_generated is false, even when the title matches the
\* impossible-content patterns and the comments flagged AI content.
C16_TrustedChannelNoAiWarnings ==
    (AnalyzeReturned /\ TrustedChannel) =>
        /\ \A w \in DOMAIN result.warnings :
              result.warnings[w].category # "AI Content"
        /\ ~result.ai_generated
        /\ result.ai_confidence = 0

\* "cat driving a car" on the BBC channel, with comments that call it AI.
C16_Witness ==
    /\ AnalyzeReturned
    /\ TrustedChannel
    /\ an.video_title = <<"cat", "driving", "a", "car">>
    /\ DetectImpossibleContent(an.video_title, an.video_description,
                               an.channel_name, an.video_tags) # None
    /\ an.comment_analysis.total_comments = 3
    /\ ~result.ai_generated

----------------------------------------------------------------------------
(* SafetyDatabase: the store is loaded from the files of the signatures    *)
(* directory (or the defaults), then add_signature is called at will.      *)

MaxFiles == 2
MaxAdded == 2

\* required = ['id', 'category', 'triggers', 'severity', 'warning_message']
RequiredKeys == {"id", "category", "triggers", "severity", "warning_message"}

\* A signature dict that has every required key besides its own.
Complete(signature) == [signature EXCEPT !.keys = @ \cup RequiredKeys]

\* _get_default_signatures(), two of its entries.
DefaultSignatures == <<Complete(Chemical001), Complete(Medical001)>>

\* Files a signatures directory can hold: a JSON list of signatures, a
\* single JSON object, a file json.load fails on.
SignatureFiles ==
    << [readable |-> TRUE, sigs |-> <<Complete(Chemical001), Complete(RegexSig)>>],
       [readable |-> TRUE, sigs |-> <<Complete(Medical001)>>],
       [readable |-> TRUE, sigs |-> <<OshaFile>>],
       [readable |-> FALSE, sigs |-> <<>>] >>

\* The directory, in the order glob yields its files.
SignatureDirs ==
    {[i \in DOMAIN picks |-> SignatureFiles[picks[i]]] :
        picks \in SeqsUpTo(Len(SignatureFiles), MaxFiles)}

\* The loop over signatures_dir.glob("*.json").
RECURSIVE LoadFiles(_)
LoadFiles(files) ==
    IF Len(files) = 0 THEN <<>>
    ELSE (IF Head(files).readable THEN Head(files).sigs ELSE <<>>)
         \o LoadFiles(Tail(files))

\* _load_database(): self.signatures
LoadDatabase(files) ==
    IF LoadFiles(files) = <<>> THEN DefaultSignatures ELSE LoadFiles(files)

\* add_signature(signature): what it returns and self.signatures after it.
AddSignature(sigs, signature) ==
    IF RequiredKeys \subseteq signature.keys
    THEN [ok |-> TRUE, signatures |-> Append(sigs, signature)]
    ELSE [ok |-> FALSE, signatures |-> sigs]

\* Signatures a caller adds: one of an id the defaults have, a new one, one
\* without 'warning_message'.
NewSignatures ==
    { Complete(Chemical001), Complete(BrokenRegexSig), BrokenRegexSig }

InitStore ==
    /\ pc = "init"
    /\ signatures = <<>>
    /\ ai_reviewer = NoReviewer
    /\ llm = NoCall
    /\ an = [added |-> 0]
    /\ args \in SignatureDirs
    /\ result = None

\* SafetyDatabase(db_path)
CallLoadDatabase ==
    /\ pc = "init"
    /\ signatures' = LoadDatabase(args)
    /\ pc' = "ready"
    /\ UNCHANGED <<ai_reviewer, llm, an, args, result>>

\* db.add_signature(signature)
CallAddSignature ==
    /\ pc = "ready"
    /\ an.added < MaxAdded
    /\ \E signature \in NewSignatures :
          LET r == AddSignature(signatures, signature) IN
          /\ signatures' = r.signatures
          /\ result' = r.ok
    /\ an' = [an EXCEPT !.added = @ + 1]
    /\ UNCHANGED <<pc, ai_reviewer, llm, args>>

NextStore == CallLoadDatabase \/ CallAddSignature

SpecStore == InitStore /\ [][NextStore]_vars

\* C17: no two signatures of the store share an id, after loading and
\* after any sequence of add_signature calls.
C17_UniqueIds ==
    pc = "ready" =>
        \A i, j \in DOMAIN signatures :
            (/\ i # j
             /\ "id" \in signatures[i].keys
             /\ "id" \in signatures[j].keys)
            => signatures[i].id # signatures[j].id

\* What add_signature does guarantee: a signature is appended exactly when
\* it has the five required keys, and the store loaded is never empty.
C17_AddedWhenComplete ==
    pc = "ready" =>
        /\ Len(signatures) >= 1
        /\ an.added > 0 =>
              /\ result \in BOOLEAN
              /\ result => RequiredKeys \subseteq signatures[Len(signatures)].keys

\* The default store after add_signature accepted a second chemical-001.
C17_Witness ==
    /\ pc = "ready"
    /\ args = <<>>
    /\ an.added = 1
    /\ result = TRUE
    /\ Len(signatures) = Len(DefaultSignatures) + 1
    /\ signatures[1].id = "chemical-001"
    /\ signatures[Len(signatures)].id = "chemical-001"

----------------------------------------------------------------------------
(* The warnings list, under SpecAnalyze                                    *)

\* How often warning f occurs in the returned list.
Occurrences(f) == Cardinality({w \in DOMAIN result.warnings : result.warnings[w] = f})

\* A signature-derived warning has the category and severity of f.
CoveredBySignature(f) ==
    \E w \in DOMAIN GenerateWarnings(an.signature_matches) :
        /\ GenerateWarnings(an.signature_matches)[w].category = f.category
        /\ GenerateWarnings(an.signature_matches)[w].severity = f.severity

\* C18: the returned warnings are deduplicated: a title red-flag warning
\* occurs at most once, and not at all when a signature-derived warning of
\* the list has its (category, severity).
C18_WarningsDeduplicated ==
    AnalyzeReturned =>
        \A i \in DOMAIN an.title_red_flags :
            /\ Occurrences(an.title_red_flags[i]) <= 1
            /\ CoveredBySignature(an.title_red_flags[i]) =>
                  Occurrences(an.title_red_flags[i]) = 0

\* What holds: a red flag the signatures cover occurs once, any other
\* twice, because step 2.7 also puts every red flag at the head of the
\* comment warnings, whose first five are appended.
C18_RedFlagsViaCommentWarnings ==
    AnalyzeReturned =>
        \A i \in DOMAIN an.title_red_flags :
            Occurrences(an.title_red_flags[i]) =
                (IF CoveredBySignature(an.title_red_flags[i]) THEN 1 ELSE 2)

\* The bleach-and-ammonia title: chemical-001 matched, the Chemical/high
\* red flag is covered by it and still in the list; and a title whose red
\* flag no signature covers, listed twice.
C18_Witness ==
    /\ AnalyzeReturned
    /\ Len(an.title_red_flags) > 0
    /\ \/ /\ BleachScenario
          /\ CoveredBySignature(an.title_red_flags[1])
          /\ Occurrences(an.title_red_flags[1]) = 1
       \/ /\ an.video_title = <<"secret", "cure", "for", "gardening">>
          /\ ~CoveredBySignature(an.title_red_flags[1])
          /\ Occurrences(an.title_red_flags[1]) = 2

----------------------------------------------------------------------------
(* The caps, under SpecAnalyze                                             *)

\* What _analyze_comments returned: the analysis changes neither count.
FetchedComments ==
    CHOOSE c \in CommentOutcomes :
        /\ c.total_comments = an.comment_analysis.total_comments
        /\ c.warning_comments = an.comment_analysis.warning_comments

\* The overall_risk of the deep analysis whose concerns were taken over.
DeepRisk ==
    IF Len(an.ai_transcript_concerns) = 0 THEN "none"
    ELSE (CHOOSE d \in DeepOutcomes : d.concerns = an.ai_transcript_concerns).overall_risk

\* The caps that fired on the comment score (steps 2.5, 2.6, 2.7, 3.7).
FiredCommentCaps ==
    (IF an.heuristic_ai # None THEN {AI_CONTENT_MAX_SCORE} ELSE {})
    \cup (IF an.dangerous_animal_child # None THEN {DANGEROUS_ANIMAL_MAX_SCORE} ELSE {})
    \cup (IF WorstRedFlag({"high", "critical"}) THEN {30} ELSE {})
    \cup (IF WorstRedFlag({"medium"}) THEN {55} ELSE {})
    \cup (IF DeepRisk = "high" THEN {25} ELSE {})
    \cup (IF DeepRisk = "medium" THEN {55} ELSE {})

\* The caps that fired on the blended score (steps 6.1, 6.5).
FiredScoreCaps ==
    (IF NoEvidence THEN {UNCERTAINTY_CAP} ELSE {})
    \cup (IF Len(an.metadata_matches) > 0 THEN {ClaimedCeiling} ELSE {})

\* The least of a value and a set of caps.
Least(caps, v) == CHOOSE x \in caps \cup {v} : \A y \in caps \cup {v} : x <= y

\* C19: every cap step takes the minimum of the value it is applied to and
\* its cap, so no step raises the value and a later, looser cap never
\* undoes an earlier, tighter one: the comment score ends as the least of
\* the fetched score and the caps that fired on it, the returned score as
\* the least of the blended score and the caps that fired on it.
C19_CapsOnlyLower ==
    AnalyzeReturned =>
        /\ an.comment_analysis.warning_score =
              Least(FiredCommentCaps, FetchedComments.warning_score)
        /\ result.safety_score =
              Least(FiredScoreCaps,
                    WeightedScore(an.transcript_available, TranscriptScore(an),
                                  an.comment_analysis.warning_score))

\* The AI cap (20) fired, then the looser red-flag cap (55): the comment
\* score, fetched as 100, stays at 20.
C19_Witness ==
    /\ AnalyzeReturned
    /\ FetchedComments.warning_score = 100
    /\ an.heuristic_ai # None
    /\ WorstRedFlag({"medium"})
    /\ an.comment_analysis.warning_score = 20

----------------------------------------------------------------------------
(* heuristic_is_debunking on its own: a title, a description and a         *)
(* transcript are drawn and the heuristic is applied.                      *)

InitHeuristic ==
    /\ pc = "call"
    /\ signatures = << >>
    /\ ai_reviewer = [provider |-> "heuristic", client |-> FALSE]
    /\ llm = NoCall
    /\ an = None
    /\ args \in [title : ReviewTitles, description : ReviewDescriptions,
                 transcript : ReviewTranscripts]
    /\ result = None

\* reviewer.heuristic_is_debunking(title, description, transcript)
CallHeuristicIsDebunking ==
    /\ pc = "call"
    /\ result' = HeuristicIsDebunking(args.title, args.description, args.transcript)
    /\ pc' = "done"
    /\ UNCHANGED <<signatures, ai_reviewer, llm, an, args>>

NextHeuristic == CallHeuristicIsDebunking

SpecHeuristic == InitHeuristic /\ [][NextHeuristic]_vars

\* How many keywords of a list occur in one of the texts.
KeywordsHit(keywords, texts) ==
    Cardinality({k \in DOMAIN keywords :
                    \E t \in texts : KeywordIn(keywords[k], Lower(t))})

\* The five contributions as the claim words them.
TitlePatternPart ==
    IF \E k \in DOMAIN DEBUNKING_TITLE_PATTERNS :
          ReSearch(DEBUNKING_TITLE_PATTERNS[k], Lower(args.title))
    THEN 40 ELSE 0

TitleKeywordPart ==
    IF KeywordsHit(DEBUNKING_TITLE_KEYWORDS, {args.title}) > 0 THEN 30 ELSE 0

DescriptionPart ==
    LET n == KeywordsHit(DEBUNKING_DESCRIPTION_KEYWORDS, {args.description})
    IN IF 15 * n < 30 THEN 15 * n ELSE 30

EducationalPart ==
    LET n == KeywordsHit(EDUCATIONAL_SIGNALS, {args.description, args.transcript})
    IN IF 10 * n < 20 THEN 10 * n ELSE 20

TranscriptPart ==
    IF KeywordsHit(TranscriptDebunkPhrases, {args.transcript}) > 0 THEN 10 ELSE 0

ClaimedScore ==
    TitlePatternPart + TitleKeywordPart + DescriptionPart + EducationalPart
    + TranscriptPart

\* C20: the heuristic's score is 0.4 for the title patterns (once), 0.3
\* for the title keywords (once), min(0.3, 0.15 per description keyword),
\* min(0.2, 0.1 per educational keyword) and 0.1 for the transcript
\* phrases (once); the confidence is min(0.95, score), in [0, 0.95];
\* is_debunking is confidence >= 0.3; empty inputs give 0 and false.
C20_HeuristicScore ==
    pc = "done" =>
        /\ result.confidence = (IF ClaimedScore < 95 THEN ClaimedScore ELSE 95)
        /\ result.confidence \in 0..95
        /\ result.is_debunking = (result.confidence >= 30)
        /\ (args.title = <<>> /\ args.description = <<>> /\ args.transcript = <<>>)
           => (result.confidence = 0 /\ ~result.is_debunking)

\* Every contribution at its most: the sum is above 0.95 and the
\* confidence is 0.95.
C20_Witness ==
    /\ pc = "done"
    /\ TitlePatternPart = 40
    /\ TitleKeywordPart = 30
    /\ DescriptionPart = 30
    /\ KeywordsHit(DEBUNKING_DESCRIPTION_KEYWORDS, {args.description}) = 3
    /\ EducationalPart = 20
    /\ TranscriptPart = 0
    /\ ClaimedScore = 120
    /\ result.confidence = 95
    /\ result.is_debunking

----------------------------------------------------------------------------
(* The weight of a metadata match, signal by signal                        *)

\* The kind of signal a reason stands for: the two description reasons are
\* one signal.
SignalOf(reason) ==
    IF reason \in {"description_matches", "description_contains"}
    THEN "description" ELSE reason

\* The fixed contribution the specification gives each signal.
FixedContribution ==
    [title |-> 3, description |-> 2, co_occurrence |-> 4, channel |-> 5,
     hashtag |-> 3, non_latin |-> 3]

\* The signals among the reasons of a match.
SignalsOf(match) == {SignalOf(match.reasons[r]) : r \in DOMAIN match.reasons}

RECURSIVE SumContributions(_)
SumContributions(signals) ==
    IF signals = {} THEN 0
    ELSE LET s == CHOOSE x \in signals : TRUE
         IN FixedContribution[s] + SumContributions(signals \ {s})

\* The channel of the call is on the signature's denylist, case and
\* surrounding blanks aside.
ChannelOnDenylist(signature) ==
    /\ args.channel # ""
    /\ \E k \in DOMAIN signature.known_bad_channels :
          Strip(LowerW(args.channel)) = Strip(LowerW(signature.known_bad_channels[k]))

\* The signatures of the store with the category of a match.
SignaturesOf(match) ==
    {i \in DOMAIN signatures :
        IsMetadataFormat(signatures[i]) /\ signatures[i].category = match.category}

\* C21: the weight of a metadata match is the sum of the fixed
\* contributions of its signals, each signal counted once (title 3,
\* description 2, co-occurrence 4, channel 5, hashtag 3, script fallback 3);
\* it never exceeds 17; a match with the script-fallback reason comes from a
\* signature that enables it, has weight 3 and no other reason; and a
\* signature whose denylist holds the channel is matched with weight at
\* least 5, exactly 5 when the channel is its only signal.
C21_WeightIsSumOfFixedContributions ==
    pc = "returned" =>
        /\ \A m \in DOMAIN result.matches :
              LET match == result.matches[m] IN
              /\ Cardinality(SignalsOf(match)) = Len(match.reasons)
              /\ match.match_weight = SumContributions(SignalsOf(match))
              /\ match.match_weight <= 17
              /\ HasReason(match, "non_latin") =>
                    /\ match.match_weight = 3
                    /\ match.reasons = <<"non_latin">>
                    /\ \A i \in SignaturesOf(match) : signatures[i].non_latin_enabled
        /\ \A i \in DOMAIN signatures :
              (IsMetadataFormat(signatures[i]) /\ ChannelOnDenylist(signatures[i])) =>
                 /\ MatchesOf(signatures[i]) # {}
                 /\ \A m \in MatchesOf(signatures[i]) :
                       /\ HasReason(result.matches[m], "channel")
                       /\ result.matches[m].match_weight >= 5
                       /\ (result.matches[m].reasons = <<"channel">>
                              => result.matches[m].match_weight = 5)

\* C21 witness: all five signals of a signature fire on one video, several
\* of its terms hitting, and the match carries the weight 17.
C21_Witness ==
    /\ pc = "returned"
    /\ args.channel = "sacred taro ua"
    /\ \E m \in DOMAIN result.matches :
          /\ result.matches[m].match_weight = 17
          /\ Len(result.matches[m].reasons) = 5
          /\ ~HasReason(result.matches[m], "non_latin")

----------------------------------------------------------------------------
(* One match per triggers-form signature, one per danger_signatures entry  *)

\* Trigger k of a triggers-form signature occurs in the text.
TriggerOccurs(signature, k, text) ==
    IF signature.is_regex THEN ReSearch(signature.triggers[k], text)
    ELSE Occurs(Lower(signature.triggers[k]), text)

\* The triggers of the signature that occur in the text.
TriggersOccurring(signature, text) ==
    {k \in DOMAIN signature.triggers : TriggerOccurs(signature, k, text)}

TriggersForm(signature) ==
    /\ ~IsMetadataFormat(signature)
    /\ "danger_signatures" \notin signature.keys

DangerForm(signature) ==
    /\ ~IsMetadataFormat(signature)
    /\ "danger_signatures" \in signature.keys

\* The matches of the result that signature i of the store (triggers form)
\* is the signature of.
MatchesOfObj(i) == {m \in DOMAIN result.matches : result.matches[m].obj = i}

\* The matches of the result built for entry k of a danger_signatures file.
MatchesOfEntry(signature, k) ==
    {m \in DOMAIN result.matches :
        /\ result.matches[m].obj = 0
        /\ result.matches[m].id = signature.danger_signatures[k].id
        /\ result.matches[m].category = signature.category
        /\ result.matches[m].matched_trigger = k}

\* C22: in the matches _match_signatures returns, a triggers-form signature
\* has at most one match, and that match is for the first of its triggers,
\* in list order, that occurs in the text (it has one whenever a trigger
\* occurs and no exclusion phrase does); every entry of a danger_signatures
\* file whose pattern matches has its own match, once for each time the file
\* is in the store, and an entry that does not match has none; a
\* metadata-format signature has no match, whatever triggers it carries.
C22_FirstTriggerOnlyEveryEntry ==
    MatcherReturned =>
        \A i \in DOMAIN signatures :
            LET signature == signatures[i]
                occurring == TriggersOccurring(signature, args.text)
            IN /\ TriggersForm(signature) =>
                    /\ Cardinality(MatchesOfObj(i)) <= 1
                    /\ \A m \in MatchesOfObj(i) :
                          /\ result.matches[m].matched_trigger \in occurring
                          /\ \A k \in occurring :
                                result.matches[m].matched_trigger <= k
                    /\ (occurring # {} /\ ~ExclusionOccurs(signature, args.text))
                          => MatchesOfObj(i) # {}
               /\ DangerForm(signature) =>
                    \A k \in DOMAIN signature.danger_signatures :
                        Cardinality(MatchesOfEntry(signature, k)) =
                            IF ReSearch(signature.danger_signatures[k].pattern, args.text)
                            THEN Cardinality({j \in DOMAIN signatures :
                                                 signatures[j] = signature})
                            ELSE 0
               /\ IsMetadataFormat(signature) =>
                    /\ MatchesOfObj(i) = {}
                    /\ \A m \in DOMAIN result.matches :
                          result.matches[m].category # signature.category

\* C22 witness: one text in which two triggers of a triggers-form signature
\* occur, both entries of a danger_signatures file match and a trigger of a
\* metadata-format signature occurs: one match for the first, two for the
\* second, none for the third.
C22_Witness ==
    /\ MatcherReturned
    /\ \E i, j, h \in DOMAIN signatures :
          /\ TriggersForm(signatures[i])
          /\ Cardinality(TriggersOccurring(signatures[i], args.text)) = 2
          /\ Cardinality(MatchesOfObj(i)) = 1
          /\ DangerForm(signatures[j])
          /\ \A k \in DOMAIN signatures[j].danger_signatures :
                Cardinality(MatchesOfEntry(signatures[j], k)) = 1
          /\ IsMetadataFormat(signatures[h])
          /\ TriggersOccurring(signatures[h], args.text) # {}
          /\ MatchesOfObj(h) = {}
    /\ Len(result.matches) = 3

----------------------------------------------------------------------------
(* Title red flags: one warning for a category and severity               *)

\* Step 2.7 called _detect_title_red_flags, and its list is in the locals.
RedFlagsDetected ==
    /\ pc \in {"review", "deep", "returned"}
    /\ ~an.is_trusted_channel
    /\ Len(an.video_title) > 0

\* The text the detector searched.
RedFlagText == Lower(an.video_title \o an.video_description \o Join(an.video_tags))

\* The rows of the table with a category and severity whose pattern matches.
MatchingRows(category, severity) ==
    {k \in DOMAIN TitleRedFlagPatterns :
        /\ TitleRedFlagPatterns[k].category = category
        /\ TitleRedFlagPatterns[k].severity = severity
        /\ ReSearch(TitleRedFlagPatterns[k].pattern, RedFlagText)}

\* The warnings of the list for a category and severity of the table.
FlagsFor(category, severity) ==
    {i \in DOMAIN an.title_red_flags :
        /\ an.title_red_flags[i].category = GetCategoryName(category)
        /\ an.title_red_flags[i].severity = severity}

\* C23: the list _detect_title_red_flags returns holds, for each category
\* and severity of the table, one warning if a pattern with that category and
\* severity matches the text and none otherwise, however many match; the
\* warning carries the message of the first matching pattern in table order.
C23_OneRedFlagPerCategorySeverity ==
    RedFlagsDetected =>
        \A r \in DOMAIN TitleRedFlagPatterns :
            LET category == TitleRedFlagPatterns[r].category
                severity == TitleRedFlagPatterns[r].severity
                rows == MatchingRows(category, severity)
            IN /\ Cardinality(FlagsFor(category, severity)) =
                      IF rows = {} THEN 0 ELSE 1
               /\ \A i \in FlagsFor(category, severity) :
                     \E k \in rows :
                        /\ \A j \in rows : k <= j
                        /\ an.title_red_flags[i].message = TitleRedFlagPatterns[k].message

\* C23 witness: two chemical/high patterns match the title, one warning is
\* kept for them, that of the earlier pattern.
C23_Witness ==
    /\ RedFlagsDetected
    /\ pc = "returned"
    /\ Cardinality(MatchingRows("chemical", "high")) = 2
    /\ Len(an.title_red_flags) = 1
    /\ an.title_red_flags[1].message =
          "Mixing household chemicals can create toxic/lethal gases"

----------------------------------------------------------------------------
(* _generate_warnings on its own: a list of matches is drawn, the warnings *)
(* are generated.                                                          *)

MaxMatches == 3    \* matches in a list drawn for the warnings and the score

\* Matches as the two matchers build them: of the triggers form, of a
\* danger_signatures entry and of metadata signatures, two of each severity.
SampleMatches ==
    << Match(1, "chemical-001", "chemical", "high", 1, "phrase"),
       Match(2, "regex-001", "diy", "medium", 1, "regex"),
       Match(0, "osha-2", "chemical", "low", 2, "regex"),
       Match(3, "medical-001", "medical", "high", 1, "phrase"),
       [Match(0, "metadata_pseudohistorical_extremism",
              "pseudohistorical_extremism", "medium", 0, "metadata")
          EXCEPT !.match_weight = 2, !.reasons = <<"description_matches">>],
       [Match(0, "metadata_pop_culture_subversion",
              "pop_culture_subversion", "low", 0, "metadata")
          EXCEPT !.match_weight = 3, !.reasons = <<"title">>] >>

MatchLists ==
    {[i \in DOMAIN picks |-> SampleMatches[picks[i]]] :
        picks \in SeqsUpTo(Len(SampleMatches), MaxMatches)}

InitWarnings ==
    /\ pc = "generate_warnings"
    /\ signatures = <<>>
    /\ ai_reviewer = NoReviewer
    /\ llm = NoCall
    /\ an = None
    /\ args \in {[matches |-> matches] : matches \in MatchLists}
    /\ result = None

\* warnings = self._generate_warnings(signature_matches)
CallGenerateWarnings ==
    /\ pc = "generate_warnings"
    /\ result' = GenerateWarnings(args.matches)
    /\ pc' = "returned"
    /\ UNCHANGED <<signatures, ai_reviewer, llm, an, args>>

NextWarnings == CallGenerateWarnings

SpecWarnings == InitWarnings /\ [][NextWarnings]_vars

\* high before medium before low.
ClaimedRank(severity) ==
    IF severity = "high" THEN 1 ELSE IF severity = "medium" THEN 2 ELSE 3

\* Where the warning of match k stands: after the warnings of the matches
\* of a higher severity and of the earlier matches of its own severity.
PlaceOf(matches, k) ==
    1 + Cardinality({j \in DOMAIN matches :
            \/ ClaimedRank(matches[j].severity) < ClaimedRank(matches[k].severity)
            \/ /\ matches[j].severity = matches[k].severity
               /\ j < k})

\* C24: _generate_warnings returns one warning for each match, the high
\* ones first, then the medium ones, then the low ones, the matches of one
\* severity in the order they were given; no match gives no warning.
C24_OneWarningPerMatchBySeverity ==
    pc = "returned" =>
        /\ Len(result) = Len(args.matches)
        /\ \A k \in DOMAIN args.matches :
              LET w == result[PlaceOf(args.matches, k)] IN
              /\ w.severity = args.matches[k].severity
              /\ w.category = GetCategoryName(args.matches[k].category)
              /\ w.message = args.matches[k].id
        /\ \A i, j \in DOMAIN result :
              i < j => ClaimedRank(result[i].severity) <= ClaimedRank(result[j].severity)

\* C24 witness: a low, a high and another high match, in that order, give
\* the two high warnings in their order and then the low one.
C24_Witness ==
    /\ pc = "returned"
    /\ Len(args.matches) = 3
    /\ args.matches[1].severity = "low"
    /\ args.matches[2].severity = "high"
    /\ args.matches[3].severity = "high"
    /\ args.matches[2].id # args.matches[3].id
    /\ result[1].message = args.matches[2].id
    /\ result[2].message = args.matches[3].id
    /\ result[3].message = args.matches[1].id

----------------------------------------------------------------------------
(* The combined branch of review_flagged_content                           *)

\* The result came from the low-confidence combined branch.
CombinedBranch ==
    /\ pc = "done"
    /\ llm.outcome # "none"
    /\ result.has_heuristic_agreed
    /\ result.heuristic_agreed
    /\ result.method = ReviewAiResult.method \o "+heuristic"

\* C25: a match suppressed through the combined branch is one the LLM and
\* the heuristic agree on: the LLM's own result was not 'promoting', its
\* is_dangerous was false.
C25_CombinedMeansAgreement ==
    CombinedBranch =>
        /\ result.should_suppress
        /\ ReviewAiResult.verdict # "promoting"
        /\ ~ReviewAiResult.is_dangerous

\* What holds of the combined branch: the heuristic said debunking with
\* confidence at least 0.5, the LLM's confidence was not 0.6 or more, and
\* the match is suppressed as debunking whatever the LLM's verdict was.
C25_CombinedDecidedByHeuristic ==
    CombinedBranch =>
        /\ ReviewHeuristic.is_debunking
        /\ ReviewHeuristic.confidence >= 50
        /\ ~ConfGe(ReviewAiResult.confidence, 60)
        /\ result.should_suppress
        /\ ~result.is_dangerous
        /\ result.verdict = "debunking"

\* An LLM that answers 'promoting' with confidence 0.3 and a heuristic that
\* says debunking: the match is suppressed and marked as agreed.
C25_Witness ==
    /\ CombinedBranch
    /\ LlmAnswered
    /\ llm.response = [verdict |-> "promoting", confidence |-> Number(30)]
    /\ ReviewAiResult.is_dangerous
    /\ result.should_suppress
    /\ result.method = "openai+heuristic"

----------------------------------------------------------------------------
(* Suppressed and dangerous exclude each other                             *)

\* The path review_flagged_content took, by the method of its result.
ReviewPaths ==
    {"openai", "anthropic", "openai+heuristic", "anthropic+heuristic",
     "heuristic", "heuristic_fallback", "heuristic_fallback+heuristic"}

\* C26: on every path the result of review_flagged_content has
\* should_suppress = not is_dangerous and is_dangerous = (verdict is
\* 'promoting'): no match is both suppressed and reported as dangerous.
C26_SuppressIffNotDangerous ==
    pc = "done" =>
        /\ result.method \in ReviewPaths
        /\ result.should_suppress = ~result.is_dangerous
        /\ result.is_dangerous = (result.verdict = "promoting")
        /\ ~(result.should_suppress /\ result.is_dangerous)

\* C26 witness: no LLM, a heuristic that finds debunking signals just at the
\* threshold: the heuristic-only result is suppressed, not dangerous, and
\* its verdict is 'debunking'.
C26_Witness ==
    /\ pc = "done"
    /\ ~IsAiEnabled(ai_reviewer)
    /\ ReviewHeuristic.confidence = 30
    /\ result.method = "heuristic"
    /\ result.should_suppress
    /\ ~result.is_dangerous
    /\ result.verdict = "debunking"

----------------------------------------------------------------------------
(* The match-derived score on its own: a list of matches and one further   *)
(* match are drawn; the score of the list is computed, then the score of   *)
(* the list with the further match appended.                               *)

InitScore ==
    /\ pc = "score"
    /\ signatures = <<>>
    /\ ai_reviewer = NoReviewer
    /\ llm = NoCall
    /\ an = None
    /\ args \in {[matches |-> matches, further |-> SampleMatches[k]] :
                    matches \in MatchLists, k \in DOMAIN SampleMatches}
    /\ result = None

\* category_results = self._analyze_categories(all_text, signature_matches)
\* transcript_score = self._calculate_safety_score(signature_matches,
\*                                                 category_results)
CallCalculateSafetyScore ==
    /\ pc = "score"
    /\ an' = [score |-> TranscriptScore([signature_matches |-> args.matches])]
    /\ pc' = "score_appended"
    /\ UNCHANGED <<signatures, ai_reviewer, llm, args, result>>

\* The same two calls on the list with the further match appended.
CallCalculateSafetyScoreAppended ==
    /\ pc = "score_appended"
    /\ result' = TranscriptScore(
                    [signature_matches |-> Append(args.matches, args.further)])
    /\ pc' = "returned"
    /\ UNCHANGED <<signatures, ai_reviewer, llm, an, args>>

NextScore ==
    \/ CallCalculateSafetyScore
    \/ CallCalculateSafetyScoreAppended

SpecScore == InitScore /\ [][NextScore]_vars

\* C27: the score of a non-empty match list is at most the no-match default
\* of 95, and the score of a list with a further match appended is never
\* above the score of the list.
C27_MatchNeverRewarded ==
    /\ (pc \in {"score_appended", "returned"} /\ Len(args.matches) > 0)
          => an.score <= DEFAULT_SAFE_SCORE
    /\ pc = "returned" =>
          /\ result <= DEFAULT_SAFE_SCORE
          /\ result <= an.score

\* What holds: appending to a non-empty list never raises the score, and
\* a non-empty list scores at most 95 unless it is a single low-severity
\* match, which scores 96 (its category among the database's) or 97.
C27_LowMatchAboveDefault ==
    /\ (pc \in {"score_appended", "returned"} /\ Len(args.matches) > 0) =>
          IF Len(args.matches) = 1 /\ args.matches[1].severity = "low"
          THEN an.score \in {96, 97}
          ELSE an.score <= DEFAULT_SAFE_SCORE
    /\ pc = "returned" =>
          /\ Len(args.matches) > 0 => result <= an.score
          /\ Len(args.matches) = 0 =>
                /\ an.score = DEFAULT_SAFE_SCORE
                /\ (result > an.score) <=> (args.further.severity = "low")

\* A low-severity chemical match appended to no match at all: 95 becomes 96.
C27_Witness ==
    /\ pc = "returned"
    /\ args.matches = <<>>
    /\ args.further.severity = "low"
    /\ args.further.category = "chemical"
    /\ an.score = DEFAULT_SAFE_SCORE
    /\ result = 96

----------------------------------------------------------------------------
(* The Child Safety warning in the warnings returned                       *)

\* Step 2.6 fired: the dangerous-animal-near-child detector found a pattern.
DangerousAnimalChildFired ==
    /\ AnalyzeReturned
    /\ an.dangerous_animal_child # None

\* The warnings returned hold the Child Safety warning.
ChildSafetyListed ==
    \E i \in DOMAIN result.warnings :
        /\ result.warnings[i].category = "Child Safety"
        /\ result.warnings[i].severity = "critical"

\* C28: whenever the dangerous-animal-near-child detector fires, the
\* warnings analyze() returns hold the 'Child Safety' warning of severity
\* critical, however many title red flags and comment warnings there are.
C28_ChildSafetyWarningReturned ==
    DangerousAnimalChildFired => ChildSafetyListed

\* What holds: the warning is returned as long as fewer than five title red
\* flags were put in front of it; with five it is cut off.
C28_ChildSafetyBehindRedFlags ==
    DangerousAnimalChildFired =>
        (ChildSafetyListed <=> Len(an.title_red_flags) < 5)

\* A toddler with a python in the title and five red flags in the
\* description: the detector fired, and no Child Safety warning is returned.
C28_Witness ==
    /\ DangerousAnimalChildFired
    /\ an.video_title = <<"toddler", "hugs", "python">>
    /\ Len(an.title_red_flags) = 5
    /\ ~ChildSafetyListed
    /\ an.comment_analysis.warnings[6].category = "Child Safety"

----------------------------------------------------------------------------
(* The daily API quota under concurrent /analyze requests (main.py)        *)
(*                                                                         *)
(* pc, args and result are functions of the request; an holds the module   *)
(* state of main.py: api_quota_tracker, the holder of _quota_lock, the     *)
(* date the clock shows, and the sum of the costs accepted since the       *)
(* tracker was last reset.                                                 *)

API_QUOTA_LIMIT == 10000

\* Concurrent /analyze requests, and the days the clock runs through.
MaxRequests == 3
MaxDay == 2
Requests == 1 .. MaxRequests

\* quota_cost = 2, plus 100 when alternatives were found.
QuotaCosts == {2, 2 + 100}

\* Counts the tracker can hold when the requests arrive: sums of costs of
\* calls accepted earlier in the day.
QuotaStarts == {0, 9896, 9998, API_QUOTA_LIMIT}

NoArgs == [quota_cost |-> 0, current_usage |-> 0]

InitQuota ==
    /\ pc = [r \in Requests |-> "analyze"]
    /\ signatures = <<>>
    /\ ai_reviewer = NoReviewer
    /\ llm = NoCall
    /\ \E count \in QuotaStarts :
          an = [api_quota_tracker |-> [count |-> count, date |-> 1],
                _quota_lock |-> 0, today |-> 1, accepted |-> count]
    /\ args = [r \in Requests |-> NoArgs]
    /\ result = [r \in Requests |-> <<>>]

\* time.strftime("%Y-%m-%d") changes at midnight.
Midnight ==
    /\ an.today < MaxDay
    /\ an' = [an EXCEPT !.today = @ + 1]
    /\ UNCHANGED <<pc, signatures, ai_reviewer, llm, args, result>>

\* analyze_video up to the call of log_api_call: the analysis and the
\* alternatives search decide the cost.
AnalyzeVideo(r) ==
    /\ pc[r] = "analyze"
    /\ \E quota_cost \in QuotaCosts :
          args' = [args EXCEPT ![r].quota_cost = quota_cost]
    /\ pc' = [pc EXCEPT ![r] = "log_api_call"]
    /\ UNCHANGED <<signatures, ai_reviewer, llm, an, result>>

\* async with _quota_lock: entered when no other request holds the lock.
AcquireQuotaLock(r) ==
    /\ pc[r] = "log_api_call"
    /\ an._quota_lock = 0
    /\ an' = [an EXCEPT !._quota_lock = r]
    /\ pc' = [pc EXCEPT ![r] = "locked"]
    /\ UNCHANGED <<signatures, ai_reviewer, llm, args, result>>

\* The tracker after the daily reset of log_api_call.
DailyReset(tracker, today) ==
    IF tracker.date # today THEN [count |-> 0, date |-> today] ELSE tracker

\* log_api_call under the lock, up to the hard limit: the daily reset, then
\* the HTTPException(429) when the cost does not fit; leaving the block
\* releases the lock.
EnforceLimit(r) ==
    /\ pc[r] = "locked"
    /\ an._quota_lock = r
    /\ LET tracker == DailyReset(an.api_quota_tracker, an.today)
           accepted == IF an.api_quota_tracker.date # an.today
                       THEN 0 ELSE an.accepted
       IN  IF tracker.count + args[r].quota_cost > API_QUOTA_LIMIT
           THEN /\ an' = [an EXCEPT !.api_quota_tracker = tracker,
                                    !.accepted = accepted,
                                    !._quota_lock = 0]
                /\ pc' = [pc EXCEPT ![r] = "raised"]
           ELSE /\ an' = [an EXCEPT !.api_quota_tracker = tracker,
                                    !.accepted = accepted]
                /\ pc' = [pc EXCEPT ![r] = "checked"]
    /\ UNCHANGED <<signatures, ai_reviewer, llm, args, result>>

\* api_quota_tracker["count"] += cost; return api_quota_tracker["count"].
AddCost(r) ==
    /\ pc[r] = "checked"
    /\ an._quota_lock = r
    /\ an' = [an EXCEPT !.api_quota_tracker.count = @ + args[r].quota_cost,
                        !.accepted = @ + args[r].quota_cost,
                        !._quota_lock = 0]
    /\ args' = [args EXCEPT ![r].current_usage =
                    an.api_quota_tracker.count + args[r].quota_cost]
    /\ pc' = [pc EXCEPT ![r] = "logged"]
    /\ UNCHANGED <<signatures, ai_reviewer, llm, result>>

\* results['api_quota_used'] = current_usage; return results.
AnalyzeVideoReturn(r) ==
    /\ pc[r] = "logged"
    /\ result' = [result EXCEPT ![r] =
                    <<[status_code |-> 200,
                       api_quota_used |-> args[r].current_usage]>>]
    /\ pc' = [pc EXCEPT ![r] = "responded"]
    /\ UNCHANGED <<signatures, ai_reviewer, llm, an, args>>

\* except Exception as e: raise HTTPException(status_code=500, ...).  The
\* HTTPException of log_api_call is an Exception and is raised inside the
\* try block.
AnalyzeVideoExcept(r) ==
    /\ pc[r] = "raised"
    /\ result' = [result EXCEPT ![r] =
                    <<[status_code |-> 500, api_quota_used |-> 0]>>]
    /\ pc' = [pc EXCEPT ![r] = "responded"]
    /\ UNCHANGED <<signatures, ai_reviewer, llm, an, args>>

NextQuota ==
    \/ Midnight
    \/ \E r \in Requests : AnalyzeVideo(r)
    \/ \E r \in Requests : AcquireQuotaLock(r)
    \/ \E r \in Requests : EnforceLimit(r)
    \/ \E r \in Requests : AddCost(r)
    \/ \E r \in Requests : AnalyzeVideoReturn(r)
    \/ \E r \in Requests : AnalyzeVideoExcept(r)

SpecQuota == InitQuota /\ [][NextQuota]_vars

\* The tracked count is within the limit and is the sum of the costs
\* accepted since the tracker's last reset.
QuotaCountSound ==
    /\ an.api_quota_tracker.count <= API_QUOTA_LIMIT
    /\ an.api_quota_tracker.count = an.accepted

\* Request r was refused by the hard limit.
QuotaRefused(r) == pc[r] = "raised" \/ (pc[r] = "responded" /\ args[r].current_usage = 0)

\* Every refused request that was answered got this status code.
RefusedAnsweredWith(status_code) ==
    \A r \in Requests :
        (QuotaRefused(r) /\ pc[r] = "responded")
            => result[r][1].status_code = status_code

\* The step of log_api_call that refuses a request leaves the count as it is.
RefusalKeepsCount ==
    \A r \in Requests :
        (pc[r] = "locked" /\ pc'[r] = "raised")
            => an'.api_quota_tracker.count = an.api_quota_tracker.count

\* C29: under any interleaving of concurrent /analyze requests the tracked
\* count never exceeds 10,000 and equals the sum of the costs accepted since
\* the last daily reset; a request whose cost would push the count past
\* 10,000 leaves the count unchanged and is answered with HTTP 429.
C29_QuotaHardLimitAnswered429 ==
    /\ [](QuotaCountSound /\ RefusedAnsweredWith(429))
    /\ [][RefusalKeepsCount]_vars

\* What holds: the count is within the limit, is the sum of the accepted
\* costs and is left alone by a refusal; the refused request is answered
\* with HTTP 500.
C29_QuotaHardLimitAnswered500 ==
    /\ [](QuotaCountSound /\ RefusedAnsweredWith(500))
    /\ [][RefusalKeepsCount]_vars

\* Two requests of cost 102 and 2 filled the quota to 10,000 from 9,896 and
\* were answered with 200; the third was refused, the count stayed, and the
\* answer was 500.
C29_Witness ==
    /\ \A r \in Requests : pc[r] = "responded"
    /\ an.api_quota_tracker.count = API_QUOTA_LIMIT
    /\ an.accepted = API_QUOTA_LIMIT
    /\ \E r \in Requests :
          /\ QuotaRefused(r)
          /\ result[r][1].status_code = 500
          /\ \A q \in Requests \ {r} :
                /\ result[q][1].status_code = 200
                /\ result[q][1].api_quota_used > 9896

----------------------------------------------------------------------------
(* The per-IP, per-endpoint rate limiter (main.py, rate_limit_middleware)  *)
(*                                                                         *)
(* an holds the clock and _rate_limit_store; llm holds, for every key of   *)
(* the traffic, the times of the requests admitted inside the current      *)
(* window, kept apart from the store; args is the traffic, the (client IP, *)
(* url path) pairs that send requests; result is the last response.        *)
(* Times are whole seconds.  A url path is <<stem, n>>, the stem followed  *)
(* by n slashes; a key is <<client_ip, path>>.                             *)

RATE_LIMIT_WINDOW == 60
DEFAULT_RATE_LIMIT == 30
CLEANUP_THRESHOLD == 200

RATE_LIMITS ==
    [p \in {"/analyze", "/health", "/ai-tutorials", "/ai-entertainment",
            "/real-alternatives"} |->
        CASE p = "/analyze" -> 10
          [] p = "/health" -> 60
          [] OTHER -> 15]

\* The clock runs to MaxTime in steps of TickSizes.
MaxTime == 90
TickSizes == {30, RATE_LIMIT_WINDOW}

\* request.url.path.rstrip("/")
Rstrip(url_path) == url_path[1]

\* RATE_LIMITS.get(path, DEFAULT_RATE_LIMIT)
RateLimitOf(path) ==
    IF path \in DOMAIN RATE_LIMITS THEN RATE_LIMITS[path]
    ELSE DEFAULT_RATE_LIMIT

\* [t for t in timestamps if now - t < RATE_LIMIT_WINDOW]
InWindow(timestamps, now) ==
    SelectSeq(timestamps, LAMBDA t : now - t < RATE_LIMIT_WINDOW)

\* _rate_limit_store[key] = timestamps
StorePut(store, key, timestamps) ==
    [k \in DOMAIN store \cup {key} |->
        IF k = key THEN timestamps ELSE store[k]]

\* The cleanup that empties the store.
StaleKeys_All(store, cutoff) == DOMAIN store

\* stale_keys = [k for k, v in store.items() if not v or v[-1] < cutoff]
StaleKeys(store, cutoff) ==
    {k \in DOMAIN store :
        store[k] = <<>> \/ store[k][Len(store[k])] < cutoff}

\* The periodic cleanup: above the threshold the stale keys are deleted.
CleanedUp(store, now) ==
    IF Cardinality(DOMAIN store) > CLEANUP_THRESHOLD
    THEN [k \in DOMAIN store \ StaleKeys(store, now - RATE_LIMIT_WINDOW) |->
              store[k]]
    ELSE store

\* Two clients, and the store 200 other clients leave behind at time 0.
ClientIps == {CLEANUP_THRESHOLD + 1, CLEANUP_THRESHOLD + 2}
OtherKeys == {<<ip, "/health">> : ip \in 1 .. CLEANUP_THRESHOLD}
RateStores == { <<>>, [k \in OtherKeys |-> <<0>>] }

\* The traffic: who requests which url path.
Traffics ==
    { {<<CLEANUP_THRESHOLD + 1, <<"/analyze", 0>> >>,
       <<CLEANUP_THRESHOLD + 2, <<"/analyze", 0>> >>},
      {<<CLEANUP_THRESHOLD + 1, <<"/analyze", 0>> >>,
       <<CLEANUP_THRESHOLD + 1, <<"/analyze", 1>> >>},
      {<<CLEANUP_THRESHOLD + 1, <<"/health", 0>> >>},
      {<<CLEANUP_THRESHOLD + 1, <<"/ai-tutorials", 0>> >>},
      {<<CLEANUP_THRESHOLD + 1, <<"/ai-entertainment", 0>> >>},
      {<<CLEANUP_THRESHOLD + 2, <<"/real-alternatives", 1>> >>},
      {<<CLEANUP_THRESHOLD + 1, <<"/report", 0>> >>} }

\* key = f"{client_ip}:{path}"
KeyOf(client_ip, url_path) == <<client_ip, Rstrip(url_path)>>

TrafficKeys(traffic) == {KeyOf(q[1], q[2]) : q \in traffic}

InitRate ==
    /\ pc = "serving"
    /\ signatures = <<>>
    /\ ai_reviewer = NoReviewer
    /\ args \in Traffics
    /\ \E store \in RateStores : an = [now |-> 0, _rate_limit_store |-> store]
    /\ llm = [k \in TrafficKeys(args) |-> <<>>]
    /\ result = [status_code |-> 0, key |-> <<0, "">>]

\* time.time() moves on.
Tick ==
    /\ \E d \in TickSizes :
          /\ an.now + d <= MaxTime
          /\ an' = [an EXCEPT !.now = @ + d]
          /\ llm' = [k \in DOMAIN llm |-> InWindow(llm[k], an.now + d)]
    /\ UNCHANGED <<pc, signatures, ai_reviewer, args, result>>

\* rate_limit_middleware for one request.
RateLimitMiddleware(client_ip, url_path) ==
    /\ LET key == KeyOf(client_ip, url_path)
           stored == IF key \in DOMAIN an._rate_limit_store
                     THEN an._rate_limit_store[key] ELSE <<>>
           timestamps == InWindow(stored, an.now)
       IN  IF Len(timestamps) >= RateLimitOf(Rstrip(url_path))
           THEN /\ result' = [status_code |-> 429, key |-> key]
                /\ UNCHANGED <<an, llm>>
           ELSE /\ an' = [an EXCEPT !._rate_limit_store =
                             CleanedUp(StorePut(@, key,
                                                Append(timestamps, an.now)),
                                       an.now)]
                /\ llm' = [llm EXCEPT ![key] = Append(@, an.now)]
                /\ result' = [status_code |-> 200, key |-> key]
    /\ UNCHANGED <<pc, signatures, ai_reviewer, args>>

NextRate ==
    \/ Tick
    \/ \E q \in args : RateLimitMiddleware(q[1], q[2])

SpecRate == InitRate /\ [][NextRate]_vars

\* The limits as claimed.
ClaimedLimit(path) ==
    CASE path = "/analyze" -> 10
      [] path = "/health" -> 60
      [] path \in {"/ai-tutorials", "/ai-entertainment",
                   "/real-alternatives"} -> 15
      [] OTHER -> 30

\* For every key, the requests admitted inside the window ending now are
\* at most the limit of its path.
AdmittedWithinLimit ==
    \A k \in DOMAIN llm : Len(llm[k]) <= ClaimedLimit(k[2])

\* A request answered with 429 leaves the store and the admitted requests
\* as they were.
RejectedDoesNotCount ==
    (result'.status_code = 429 /\ an'.now = an.now)
        => (an'._rate_limit_store = an._rate_limit_store /\ llm' = llm)

\* A key that leaves the store had no timestamp inside the window.
CleanupRemovesOnlyStale ==
    \A k \in DOMAIN an._rate_limit_store \ DOMAIN an'._rate_limit_store :
        InWindow(an._rate_limit_store[k], an'.now) = <<>>

\* C30: for every client IP and endpoint path at most limit requests (10
\* for /analyze, 60 for /health, 15 for the three alternatives endpoints,
\* 30 otherwise) are admitted within any 60-second window; a rejected
\* request does not count, and the cleanup removes only keys with no
\* timestamp inside the window.
C30_RateLimitPerKeyAndWindow ==
    /\ []AdmittedWithinLimit
    /\ [][RejectedDoesNotCount /\ CleanupRemovesOnlyStale]_vars

\* After the cleanup deleted the keys of the other clients, a client that
\* used its ten /analyze requests inside the window is still refused.
C30_Witness ==
    /\ an.now > RATE_LIMIT_WINDOW
    /\ DOMAIN an._rate_limit_store \cap OtherKeys = {}
    /\ \E k \in DOMAIN an._rate_limit_store :
          /\ k[2] = "/analyze"
          /\ Len(InWindow(an._rate_limit_store[k], an.now)) = 10
          /\ Len(llm[k]) = 10
          /\ result = [status_code |-> 429, key |-> k]

====
